---- MODULE Spec2Model ----
(***************************************************************************)
(* Model of the prompt / version / visibility core of prompta:             *)
(*   prompta-api/prompts/models.py    tables Project, Prompt, PromptVersion*)
(*   prompta-api/prompts/services.py  ProjectService, PromptService        *)
(*   prompta-app/prompts/routes.py    the /prompts routes                  *)
(*                                                                         *)
(* Spec      : requests are served one at a time; every action is one      *)
(*             whole request (route + service + end of the session).       *)
(* SpecConc  : create_version / restore_version requests of several        *)
(*             writers interleave statement by statement, each inside its  *)
(*             own database transaction, next to a reader of the           *)
(*             committed rows.                                             *)
(***************************************************************************)
EXTENDS Integers, Sequences, FiniteSets, TLC

----------------------------------------------------------------------------
(* Bounds of the model *)

MaxPrompts == 2
MaxVersions == 3
MaxProjects == 1
MaxRenamedProjects == 2
MaxPage == 3
MaxPageSize == 3

(* Value sets the requests draw their inputs from *)

Users == {"A", "B"}
Names == {"x", "y"}
Locations == {"p.md"}
Contents == {<<"a">>, <<"b">>}
Messages == {"msg"}
Writers == {"w1", "w2"}

(* Optional[T]: None is the empty tuple, a present value is a 1-tuple *)
None == <<>>
Some(x) == <<x>>
Opt(S) == {None} \cup {Some(x) : x \in S}

(* Python truthiness of an Optional[str] / Optional[User] *)
Truthy(o) == o # None /\ o[1] # ""

VARIABLES
    db,      \* committed rows: [prompts, versions, projects]
    ids,     \* number of primary keys handed out so far, per table
    last,    \* the last request and its response
    tx       \* per writer: the open session / transaction of SpecConc

vars == <<db, ids, last, tx>>

----------------------------------------------------------------------------
(* Rows.  models.py: Prompt (48-103), PromptVersion (106-127), Project     *)
(* (19-45).  Primary keys are uuid4 strings; the model hands out 1, 2, ... *)
(* per table and never reuses a key.                                       *)

PromptRow(id, user, project_id, name, location, is_public, cvid) ==
    [id |-> id, user_id |-> user, project_id |-> project_id, name |-> name,
     location |-> location, is_public |-> is_public,
     current_version_id |-> cvid]

PromptVersionRow(id, prompt_id, n, content, msg, is_current) ==
    [id |-> id, prompt_id |-> prompt_id, version_number |-> n,
     content |-> content, commit_message |-> msg, is_current |-> is_current]

ProjectRow(id, user, name) ==
    [id |-> id, user_id |-> user, name |-> name]

VersionsOf(vs, pid) == {v \in vs : v.prompt_id = pid}

(* Query.first(): None for an empty result, otherwise one row of it.  The  *)
(* queries carry no ORDER BY, so with several rows any of them may come.    *)
First(rows) == IF rows = {} THEN {None} ELSE {Some(r) : r \in rows}

(* func.max(PromptVersion.version_number) ... .scalar() or 0 *)
MaxNumber(rows) ==
    IF rows = {} THEN 0
    ELSE CHOOSE n \in {v.version_number : v \in rows} :
             \A v \in rows : v.version_number <= n

(* Outcome of a service call: the rows and key counters it leaves behind,   *)
(* what it raised ("" when it returned) and the value it returned.          *)
Outcome(d, i, raised, value) ==
    [db |-> d, ids |-> i, raised |-> raised, value |-> value]

----------------------------------------------------------------------------
(* ProjectService *)

get_project_by_id(d, user, project_id) ==
    {j \in d.projects : j.id = project_id /\ j.user_id = user}

create_project(d, i, user, name) ==
    LET existing == {j \in d.projects : j.user_id = user /\ j.name = name}
        jid == i.project + 1
    IN  IF existing # {}
        THEN Outcome(d, i, "ValueError", None)
        ELSE Outcome([d EXCEPT !.projects = @ \cup {ProjectRow(jid, user, name)}],
                     [i EXCEPT !.project = jid], "", Some(jid))

(* ProjectService.update_project; of the fields of a project the model     *)
(* keeps the name                                                           *)
update_project_unchecked(d, i, user, project_id, project_data) ==
    LET project == get_project_by_id(d, user, project_id)
        old == CHOOSE j \in project : TRUE
        new == [old EXCEPT !.name = IF project_data.name # None
                                    THEN project_data.name[1] ELSE @]
    IN  IF project = {}
        THEN Outcome(d, i, "", None)
        ELSE Outcome([d EXCEPT !.projects = (@ \ project) \cup {new}],
                     i, "", Some(project_id))

update_project(d, i, user, project_id, project_data) ==
    LET project == get_project_by_id(d, user, project_id)
        old == CHOOSE j \in project : TRUE
        existing_project == {j \in d.projects :
                                /\ j.user_id = user
                                /\ j.name = project_data.name[1]
                                /\ j.id # project_id}
        new == [old EXCEPT !.name = IF project_data.name # None
                                    THEN project_data.name[1] ELSE @]
    IN  IF project = {}
        THEN Outcome(d, i, "", None)
        ELSE IF Truthy(project_data.name) /\ project_data.name[1] # old.name
                /\ existing_project # {}
        THEN Outcome(d, i, "ValueError", None)
        ELSE Outcome([d EXCEPT !.projects = (@ \ project) \cup {new}],
                     i, "", Some(project_id))

(* db.delete(project): Project.prompts cascades "all, delete-orphan" to the *)
(* prompts of the project, and Prompt.versions cascades on to their versions*)
delete_project_keeps_prompts(d, i, user, project_id) ==
    LET project == get_project_by_id(d, user, project_id)
    IN  IF project = {}
        THEN Outcome(d, i, "", FALSE)
        ELSE Outcome([d EXCEPT !.projects = @ \ project], i, "", TRUE)

delete_project_keeps_versions(d, i, user, project_id) ==
    LET project == get_project_by_id(d, user, project_id)
        gone == {p \in d.prompts : p.project_id = Some(project_id)}
    IN  IF project = {}
        THEN Outcome(d, i, "", FALSE)
        ELSE Outcome([d EXCEPT !.projects = @ \ project,
                               !.prompts = @ \ gone],
                     i, "", TRUE)

delete_project(d, i, user, project_id) ==
    LET project == get_project_by_id(d, user, project_id)
        gone == {p \in d.prompts : p.project_id = Some(project_id)}
    IN  IF project = {}
        THEN Outcome(d, i, "", FALSE)
        ELSE Outcome([projects |-> d.projects \ project,
                      prompts |-> d.prompts \ gone,
                      versions |-> {v \in d.versions :
                                      \A p \in gone : v.prompt_id # p.id}],
                     i, "", TRUE)

----------------------------------------------------------------------------
(* PromptService: lookups *)

(* Mutant of get_prompt_by_id: a public prompt is found for every user      *)
get_prompt_by_id_or_public(d, user, prompt_id) ==
    {p \in d.prompts : p.id = prompt_id /\ (p.user_id = user \/ p.is_public)}

get_prompt_by_id(d, user, prompt_id) ==
    {p \in d.prompts : p.id = prompt_id /\ p.user_id = user}

get_prompt_public_or_private(d, prompt_id, user) ==
    LET prompt == {p \in d.prompts : p.id = prompt_id}
    IN  {p \in prompt : p.is_public \/ (user # None /\ p.user_id = user[1])}

(* Mutant of get_prompt_by_location: include_private lifts the filter *)
get_prompt_by_location_unfiltered(d, user, location, include_private) ==
    LET query == {p \in d.prompts : p.location = location}
    IN  IF include_private
        THEN query
        ELSE IF user # None
        THEN {p \in query : p.user_id = user[1]}
        ELSE {p \in query : p.is_public = TRUE}

get_prompt_by_location(d, user, location, include_private) ==
    LET query == {p \in d.prompts : p.location = location}
    IN  IF user # None /\ include_private
        THEN {p \in query : p.is_public = TRUE \/ p.user_id = user[1]}
        ELSE IF user # None
        THEN {p \in query : p.user_id = user[1]}
        ELSE {p \in query : p.is_public = TRUE}

get_version(d, user, prompt_id, version_number) ==
    IF get_prompt_by_id(d, user, prompt_id) = {}
    THEN {}
    ELSE {v \in d.versions : v.prompt_id = prompt_id
                             /\ v.version_number = version_number}

(* Mutant of OrderedDesc: ORDER BY version_number ASC *)
OrderedAsc(rows) ==
    {s \in [1..Cardinality(rows) -> rows] :
        /\ \A a, b \in DOMAIN s : a # b => s[a] # s[b]
        /\ \A a, b \in DOMAIN s :
              a < b => s[a].version_number <= s[b].version_number}

(* ORDER BY version_number DESC: every sequence of the rows, each once,     *)
(* whose numbers never increase (rows with equal numbers come in any order) *)
OrderedDesc(rows) ==
    {s \in [1..Cardinality(rows) -> rows] :
        /\ \A a, b \in DOMAIN s : a # b => s[a] # s[b]
        /\ \A a, b \in DOMAIN s :
              a < b => s[a].version_number >= s[b].version_number}

list_versions(d, user, prompt_id) ==
    IF get_prompt_by_id(d, user, prompt_id) = {}
    THEN {<<>>}
    ELSE OrderedDesc(VersionsOf(d.versions, prompt_id))


----------------------------------------------------------------------------
(* PromptService: reads over many prompts *)

(* Column.ilike("%term%"): the term occurs in the text, letter case aside.  *)
(* Texts are sequences of characters; the terms of the model hold no LIKE   *)
(* wildcard.                                                                *)
Lower(c) == CASE c = "A" -> "a" [] c = "B" -> "b" [] OTHER -> c

ILike(text, term) ==
    \E k \in 0..(Len(text) - Len(term)) :
        \A j \in 1..Len(term) : Lower(text[k + j]) = Lower(term[j])

(* list_prompts with no search term: the rows the count and the page are    *)
(* taken from.  project_name, when given, joins the prompt's project.       *)
list_prompts(d, user, search_params, include_private) ==
    LET query == IF user # None /\ include_private
                 THEN {p \in d.prompts : p.is_public = TRUE \/ p.user_id = user[1]}
                 ELSE IF user # None
                 THEN {p \in d.prompts : p.user_id = user[1]}
                 ELSE {p \in d.prompts : p.is_public = TRUE}
    IN  IF Truthy(search_params.project_name)
        THEN {p \in query : \E j \in d.projects :
                 Some(j.id) = p.project_id /\ j.name = search_params.project_name[1]}
        ELSE query

(* Mutant of search_prompts_by_content: the session-token branch is missing *)
search_prompts_by_content_two_modes(d, user, search_term, include_private) ==
    LET query == {p \in d.prompts : \E v \in d.versions :
                     /\ p.current_version_id = Some(v.id)
                     /\ ILike(v.content, search_term)}
    IN  IF user # None
        THEN {p \in query : p.is_public = TRUE \/ p.user_id = user[1]}
        ELSE {p \in query : p.is_public = TRUE}

search_prompts_by_content_any_version(d, user, search_term, include_private) ==
    LET query == {p \in d.prompts : \E v \in d.versions :
                     /\ v.prompt_id = p.id
                     /\ ILike(v.content, search_term)}
    IN  IF user # None /\ include_private
        THEN {p \in query : p.is_public = TRUE \/ p.user_id = user[1]}
        ELSE IF user # None
        THEN {p \in query : p.user_id = user[1]}
        ELSE {p \in query : p.is_public = TRUE}

search_prompts_by_content(d, user, search_term, include_private) ==
    LET query == {p \in d.prompts : \E v \in d.versions :
                     /\ p.current_version_id = Some(v.id)
                     /\ ILike(v.content, search_term)}
    IN  IF user # None /\ include_private
        THEN {p \in query : p.is_public = TRUE \/ p.user_id = user[1]}
        ELSE IF user # None
        THEN {p \in query : p.user_id = user[1]}
        ELSE {p \in query : p.is_public = TRUE}

ContentExcluded == <<"[Content excluded]">>

(* Prompt.current_version: the row whose id is current_version_id *)
current_version(d, p) ==
    IF p.current_version_id = None THEN {}
    ELSE {v \in d.versions : v.id = p.current_version_id[1]}

(* Mutant of download_prompts: the API-key branch keeps the owner's prompts *)
(* only                                                                     *)
download_prompts_own_only(d, i, user, download_params, include_private) ==
    LET query == IF user # None
                 THEN {p \in d.prompts : p.user_id = user[1]}
                 ELSE {p \in d.prompts : p.is_public = TRUE}
        prompts == IF Truthy(download_params.project_name)
                   THEN {p \in query : \E j \in d.projects :
                            /\ Some(j.id) = p.project_id
                            /\ j.name = download_params.project_name[1]}
                   ELSE query
    IN  Outcome(d, i, "", prompts)

(* download_prompts: value is the matching prompts; db is the rows as the   *)
(* session holds them on return, with nothing committed by the service.     *)
download_prompts(d, i, user, download_params, include_private) ==
    LET query == IF user # None /\ include_private
                 THEN {p \in d.prompts : p.is_public = TRUE \/ p.user_id = user[1]}
                 ELSE IF user # None
                 THEN {p \in d.prompts : p.user_id = user[1]}
                 ELSE {p \in d.prompts : p.is_public = TRUE}
        prompts == IF Truthy(download_params.project_name)
                   THEN {p \in query : \E j \in d.projects :
                            /\ Some(j.id) = p.project_id
                            /\ j.name = download_params.project_name[1]}
                   ELSE query
        touched == UNION {current_version(d, p) : p \in prompts}
        session == IF ~download_params.include_content
                   THEN [d EXCEPT !.versions =
                            {IF v \in touched
                             THEN [v EXCEPT !.content = ContentExcluded]
                             ELSE v : v \in @}]
                   ELSE d
    IN  Outcome(session, i, "", prompts)


----------------------------------------------------------------------------
(* PromptService: writes *)

(* Mutant of create_prompt: the prompt row is written before the project is *)
(* validated and stays when the validation fails                            *)
create_prompt_validates_late(d, i, user, prompt_data) ==
    LET existing_prompt == {p \in d.prompts :
                               p.user_id = user /\ p.name = prompt_data.name}
        pid == i.prompt + 1
        vid == i.version + 1
        db_prompt == PromptRow(pid, user, prompt_data.project_id,
                               prompt_data.name, prompt_data.location,
                               prompt_data.is_public, None)
        initial_version ==
            PromptVersionRow(vid, pid, 1, prompt_data.content,
                             IF Truthy(prompt_data.commit_message)
                             THEN prompt_data.commit_message
                             ELSE Some("Initial version"),
                             TRUE)
    IN  IF existing_prompt # {}
        THEN Outcome(d, i, "ValueError", None)
        ELSE IF prompt_data.project_id # None
                /\ get_project_by_id(d, user, prompt_data.project_id[1]) = {}
        THEN Outcome([d EXCEPT !.prompts = @ \cup {db_prompt}],
                     [i EXCEPT !.prompt = pid], "ValueError", None)
        ELSE Outcome([d EXCEPT
                        !.prompts = @ \cup
                            {[db_prompt EXCEPT !.current_version_id = Some(vid)]},
                        !.versions = @ \cup {initial_version}],
                     [i EXCEPT !.prompt = pid, !.version = vid],
                     "", Some(pid))

create_prompt(d, i, user, prompt_data) ==
    LET existing_prompt == {p \in d.prompts :
                               p.user_id = user /\ p.name = prompt_data.name}
        pid == i.prompt + 1
        vid == i.version + 1
        db_prompt == PromptRow(pid, user, prompt_data.project_id,
                               prompt_data.name, prompt_data.location,
                               prompt_data.is_public, Some(vid))
        initial_version ==
            PromptVersionRow(vid, pid, 1, prompt_data.content,
                             IF Truthy(prompt_data.commit_message)
                             THEN prompt_data.commit_message
                             ELSE Some("Initial version"),
                             TRUE)
    IN  IF existing_prompt # {}
        THEN Outcome(d, i, "ValueError", None)
        ELSE IF prompt_data.project_id # None
                /\ get_project_by_id(d, user, prompt_data.project_id[1]) = {}
        THEN Outcome(d, i, "ValueError", None)
        ELSE Outcome([d EXCEPT !.prompts = @ \cup {db_prompt},
                               !.versions = @ \cup {initial_version}],
                     [i EXCEPT !.prompt = pid, !.version = vid],
                     "", Some(pid))

(* Mutant of update_prompt: the name is changed without the conflict check *)
update_prompt_unchecked(d, i, user, prompt_id, prompt_data) ==
    LET prompt == get_prompt_by_id(d, user, prompt_id)
        old == CHOOSE p \in prompt : TRUE
        new == [old EXCEPT
                  !.name = IF prompt_data.name # None
                           THEN prompt_data.name[1] ELSE @,
                  !.location = IF prompt_data.location # None
                               THEN prompt_data.location[1] ELSE @,
                  !.project_id = IF prompt_data.project_id # None
                                 THEN prompt_data.project_id ELSE @,
                  !.is_public = IF prompt_data.is_public # None
                                THEN prompt_data.is_public[1] ELSE @]
    IN  IF prompt = {}
        THEN Outcome(d, i, "", None)
        ELSE IF prompt_data.project_id # None
                /\ get_project_by_id(d, user, prompt_data.project_id[1]) = {}
        THEN Outcome(d, i, "ValueError", None)
        ELSE Outcome([d EXCEPT !.prompts = (@ \ prompt) \cup {new}],
                     i, "", Some(prompt_id))

update_prompt_assigns_first(d, i, user, prompt_id, prompt_data) ==
    LET prompt == get_prompt_by_id(d, user, prompt_id)
        old == CHOOSE p \in prompt : TRUE
        existing_prompt == {p \in d.prompts :
                               /\ p.user_id = user
                               /\ p.name = prompt_data.name[1]
                               /\ p.id # prompt_id}
        partial == [old EXCEPT
                      !.location = IF prompt_data.location # None
                                   THEN prompt_data.location[1] ELSE @,
                      !.is_public = IF prompt_data.is_public # None
                                    THEN prompt_data.is_public[1] ELSE @]
        new == [partial EXCEPT
                  !.name = IF prompt_data.name # None
                           THEN prompt_data.name[1] ELSE @,
                  !.project_id = IF prompt_data.project_id # None
                                 THEN prompt_data.project_id ELSE @]
        assigned == [d EXCEPT !.prompts = (@ \ prompt) \cup {partial}]
    IN  IF prompt = {}
        THEN Outcome(d, i, "", None)
        ELSE IF Truthy(prompt_data.name) /\ prompt_data.name[1] # old.name
                /\ existing_prompt # {}
        THEN Outcome(assigned, i, "ValueError", None)
        ELSE IF prompt_data.project_id # None
                /\ get_project_by_id(d, user, prompt_data.project_id[1]) = {}
        THEN Outcome(assigned, i, "ValueError", None)
        ELSE Outcome([d EXCEPT !.prompts = (@ \ prompt) \cup {new}],
                     i, "", Some(prompt_id))

update_prompt(d, i, user, prompt_id, prompt_data) ==
    LET prompt == get_prompt_by_id(d, user, prompt_id)
        old == CHOOSE p \in prompt : TRUE
        existing_prompt == {p \in d.prompts :
                               /\ p.user_id = user
                               /\ p.name = prompt_data.name[1]
                               /\ p.id # prompt_id}
        new == [old EXCEPT
                  !.name = IF prompt_data.name # None
                           THEN prompt_data.name[1] ELSE @,
                  !.location = IF prompt_data.location # None
                               THEN prompt_data.location[1] ELSE @,
                  !.project_id = IF prompt_data.project_id # None
                                 THEN prompt_data.project_id ELSE @,
                  !.is_public = IF prompt_data.is_public # None
                                THEN prompt_data.is_public[1] ELSE @]
    IN  IF prompt = {}
        THEN Outcome(d, i, "", None)
        ELSE IF Truthy(prompt_data.name) /\ prompt_data.name[1] # old.name
                /\ existing_prompt # {}
        THEN Outcome(d, i, "ValueError", None)
        ELSE IF prompt_data.project_id # None
                /\ get_project_by_id(d, user, prompt_data.project_id[1]) = {}
        THEN Outcome(d, i, "ValueError", None)
        ELSE Outcome([d EXCEPT !.prompts = (@ \ prompt) \cup {new}],
                     i, "", Some(prompt_id))

(* Mutant of delete_prompt: the versions are not deleted with the prompt *)
delete_prompt_keeps_versions(d, i, user, prompt_id) ==
    LET prompt == get_prompt_by_id(d, user, prompt_id)
    IN  IF prompt = {}
        THEN Outcome(d, i, "", FALSE)
        ELSE Outcome([d EXCEPT !.prompts = @ \ prompt], i, "", TRUE)

(* db.delete(prompt): Prompt.versions cascades "all, delete-orphan" *)
delete_prompt(d, i, user, prompt_id) ==
    LET prompt == get_prompt_by_id(d, user, prompt_id)
    IN  IF prompt = {}
        THEN Outcome(d, i, "", FALSE)
        ELSE Outcome([d EXCEPT !.prompts = @ \ prompt,
                               !.versions = @ \ VersionsOf(@, prompt_id)],
                     i, "", TRUE)

(* next_version = max_version + 1 *)
NextVersion(max_version) == max_version + 1

(* Mutant of MarkNotCurrent: the UPDATE without its prompt_id condition *)
MarkNotCurrentAnywhere(vs, prompt_id) ==
    {IF v.is_current = TRUE
     THEN [v EXCEPT !.is_current = FALSE] ELSE v : v \in vs}

(* UPDATE prompt_versions SET is_current = false                            *)
(*   WHERE prompt_id = :prompt_id AND is_current = true                     *)
MarkNotCurrent(vs, prompt_id) ==
    {IF v.prompt_id = prompt_id /\ v.is_current = TRUE
     THEN [v EXCEPT !.is_current = FALSE] ELSE v : v \in vs}

(* Mutant of SetCurrentVersion: the pointer is set on every prompt *)
SetCurrentVersionEverywhere(ps, prompt_id, vid) ==
    {[p EXCEPT !.current_version_id = Some(vid)] : p \in ps}

(* Mutant of SetCurrentVersion: the prompt is also made public *)
SetCurrentVersionAndPublish(ps, prompt_id, vid) ==
    {IF p.id = prompt_id
     THEN [p EXCEPT !.current_version_id = Some(vid), !.is_public = TRUE]
     ELSE p : p \in ps}

(* prompt.current_version_id = new_version.id *)
SetCurrentVersion(ps, prompt_id, vid) ==
    {IF p.id = prompt_id THEN [p EXCEPT !.current_version_id = Some(vid)]
     ELSE p : p \in ps}

create_version(d, i, user, prompt_id, version_data) ==
    LET prompt == get_prompt_by_id(d, user, prompt_id)
        max_version == MaxNumber(VersionsOf(d.versions, prompt_id))
        next_version == NextVersion(max_version)
        vid == i.version + 1
        new_version == PromptVersionRow(vid, prompt_id, next_version,
                                        version_data.content,
                                        version_data.commit_message, TRUE)
    IN  IF prompt = {}
        THEN Outcome(d, i, "", None)
        ELSE Outcome([d EXCEPT
                        !.versions = MarkNotCurrent(@, prompt_id)
                                       \cup {new_version},
                        !.prompts = SetCurrentVersion(@, prompt_id, vid)],
                     [i EXCEPT !.version = vid], "", Some(vid))

(* f"Restored from version {version_number}" *)
RestoreMessage(version_number) ==
    "Restored from version " \o ToString(version_number)

(* Mutant of restore_version: the content of the current version is copied *)
restore_version_of_current(d, i, user, prompt_id, version_number, commit_message, version_to_restore) ==
    IF version_to_restore = None
    THEN Outcome(d, i, "", None)
    ELSE create_version(d, i, user, prompt_id,
            [content |-> (CHOOSE v \in VersionsOf(d.versions, prompt_id) :
                             v.is_current = TRUE).content,
             commit_message |->
                 IF Truthy(commit_message) THEN commit_message
                 ELSE Some(RestoreMessage(version_number))])

(* Mutant of restore_version: the current flag is cleared before the        *)
(* version is looked up                                                     *)
restore_version_unset_first(d, i, user, prompt_id, version_number, commit_message, version_to_restore) ==
    IF version_to_restore = None
    THEN Outcome([d EXCEPT !.versions = MarkNotCurrent(@, prompt_id)],
                 i, "", None)
    ELSE create_version(d, i, user, prompt_id,
            [content |-> version_to_restore[1].content,
             commit_message |->
                 IF Truthy(commit_message) THEN commit_message
                 ELSE Some(RestoreMessage(version_number))])

(* restore_version; get_version(...).first() may be any row with the number *)
restore_version(d, i, user, prompt_id, version_number, commit_message, version_to_restore) ==
    IF version_to_restore = None
    THEN Outcome(d, i, "", None)
    ELSE create_version(d, i, user, prompt_id,
            [content |-> version_to_restore[1].content,
             commit_message |->
                 IF Truthy(commit_message) THEN commit_message
                 ELSE Some(RestoreMessage(version_number))])


----------------------------------------------------------------------------
(* PromptService.compare_versions.  A content is a sequence of characters;  *)
(* the diff is the sequence of the pieces of text that "".join(diff) puts   *)
(* one after the other, so the returned string is empty exactly when the    *)
(* sequence is.                                                             *)

RECURSIVE SplitFrom(_, _, _, _)
SplitFrom(text, k, line, acc) ==
    IF k > Len(text)
    THEN IF line = <<>> THEN acc ELSE Append(acc, line)
    ELSE IF text[k] = "\n"
    THEN SplitFrom(text, k + 1, <<>>, Append(acc, Append(line, "\n")))
    ELSE SplitFrom(text, k + 1, Append(line, text[k]), acc)

(* Mutant of SplitLines: str.splitlines() without keepends *)
SplitLinesNoEnds(text) ==
    [k \in DOMAIN SplitFrom(text, 1, <<>>, <<>>) |->
        LET line == SplitFrom(text, 1, <<>>, <<>>)[k]
        IN  IF line[Len(line)] = "\n" THEN SubSeq(line, 1, Len(line) - 1)
            ELSE line]

(* str.splitlines(keepends=True): the lines, each with its line end *)
SplitLines(text) == SplitFrom(text, 1, <<>>, <<>>)

(* SequenceMatcher.find_longest_match on a[alo..ahi], b[blo..bhi]: <<i, j,  *)
(* k>> with a[i..i+k-1] = b[j..j+k-1], k largest, then i least, then j      *)
(* least; k = 0 when no line matches.                                       *)
find_longest_match(a, b, alo, ahi, blo, bhi) ==
    LET blocks == {c \in (alo..ahi) \X (blo..bhi) \X (1..(ahi - alo + 1)) :
                     /\ c[1] + c[3] - 1 <= ahi
                     /\ c[2] + c[3] - 1 <= bhi
                     /\ \A t \in 0..(c[3] - 1) : a[c[1] + t] = b[c[2] + t]}
    IN  IF blocks = {} THEN <<alo, blo, 0>>
        ELSE CHOOSE c \in blocks : \A e \in blocks :
                 \/ c[3] > e[3]
                 \/ c[3] = e[3] /\ c[1] < e[1]
                 \/ c[3] = e[3] /\ c[1] = e[1] /\ c[2] <= e[2]

(* SequenceMatcher.get_matching_blocks: the longest match, then the same to *)
(* its left and to its right                                                *)
RECURSIVE get_matching_blocks(_, _, _, _, _, _)
get_matching_blocks(a, b, alo, ahi, blo, bhi) ==
    LET m == find_longest_match(a, b, alo, ahi, blo, bhi)
    IN  IF alo > ahi \/ blo > bhi \/ m[3] = 0 THEN <<>>
        ELSE get_matching_blocks(a, b, alo, m[1] - 1, blo, m[2] - 1)
             \o <<m>>
             \o get_matching_blocks(a, b, m[1] + m[3], ahi, m[2] + m[3], bhi)

(* The lines of one hunk: for every matching block the lines of a before it *)
(* with "-", the lines of b before it with "+", its own lines with " ".     *)
RECURSIVE HunkLines(_, _, _, _, _)
HunkLines(a, b, blocks, i, j) ==
    LET m == IF blocks = <<>> THEN <<Len(a) + 1, Len(b) + 1, 0>>
             ELSE Head(blocks)
        removed == [k \in 1..(m[1] - i) |-> <<"-">> \o a[i + k - 1]]
        added == [k \in 1..(m[2] - j) |-> <<"+">> \o b[j + k - 1]]
        equal == [k \in 1..m[3] |-> <<" ">> \o a[m[1] + k - 1]]
    IN  removed \o added \o equal \o
        (IF blocks = <<>> THEN <<>>
         ELSE HunkLines(a, b, Tail(blocks), m[1] + m[3], m[2] + m[3]))

RECURSIVE Join(_)
Join(pieces) == IF pieces = <<>> THEN <<>> ELSE Head(pieces) \o Join(Tail(pieces))

(* _format_range_unified for a range that starts at the first line *)
FormatRange(length) ==
    IF length = 1 THEN "1"
    ELSE IF length = 0 THEN "0,0"
    ELSE "1," \o ToString(length)

(* "".join(difflib.unified_diff(a, b, fromfile, tofile, lineterm="")) for   *)
(* texts of at most three lines, which the three lines of context keep in   *)
(* one hunk: nothing when the hunk has no "-" and no "+" line, else the two *)
(* file lines, the hunk header and the hunk.                                *)
unified_diff(a, b, fromfile, tofile) ==
    LET hunk == HunkLines(a, b,
                          get_matching_blocks(a, b, 1, Len(a), 1, Len(b)),
                          1, 1)
    IN  IF \A k \in DOMAIN hunk : hunk[k][1] = " "
        THEN <<>>
        ELSE Join(<< <<"--- ", fromfile>>, <<"+++ ", tofile>>,
                     <<"@@ -", FormatRange(Len(a)), " +", FormatRange(Len(b)),
                       " @@">> >>
                  \o hunk)

(* Mutant of compare_versions: None only when both versions are missing *)
compare_versions_both_missing(d, user, prompt_id, version1, version2, v1, v2) ==
    IF v1 = None /\ v2 = None
    THEN None
    ELSE Some(unified_diff(
             IF v1 = None THEN <<>> ELSE SplitLines(v1[1].content),
             IF v2 = None THEN <<>> ELSE SplitLines(v2[1].content),
             "Version " \o ToString(version1),
             "Version " \o ToString(version2)))

(* compare_versions; v1 and v2 are what the two get_version(...).first()    *)
(* calls returned.  None when either is missing, else Some(diff).           *)
compare_versions(d, user, prompt_id, version1, version2, v1, v2) ==
    IF v1 = None \/ v2 = None
    THEN None
    ELSE Some(unified_diff(SplitLines(v1[1].content),
                           SplitLines(v2[1].content),
                           "Version " \o ToString(version1),
                           "Version " \o ToString(version2)))


----------------------------------------------------------------------------
(* Requests.  A write route gets its user from get_current_user_flexible;   *)
(* a read route gets (user or None, is_api_key_auth) from                   *)
(* get_current_user_optional.  Every action below is one whole request; its *)
(* parameter R names the sets the request's inputs are drawn from.  last    *)
(* keeps the request of a write and the response of every route.            *)

UserAuth == Opt(Users) \X BOOLEAN
PromptIds == 1..MaxPrompts
VersionNumbers == 1..MaxVersions
ProjectIds == 1..MaxProjects
ProjectNames == {"j"}
SearchTerms == {<<>>, <<"a">>, <<"B">>}
RestoreData == {None, Some(None), Some(Some("back to {version_number}"))}

(* PromptUpdate bodies: every field is optional *)
PromptUpdates ==
    [name : Opt(Names), location : Opt(Locations),
     is_public : Opt(BOOLEAN), project_id : Opt(ProjectIds)]

Requests ==
    [users |-> Users, owners |-> Users, names |-> Names,
     locations |-> Locations,
     contents |-> Contents, public |-> BOOLEAN,
     project_ids |-> Opt(ProjectIds), create_messages |-> Opt(Messages),
     updates |-> PromptUpdates, version_messages |-> Opt(Messages),
     restore_data |-> RestoreData, auths |-> UserAuth, terms |-> SearchTerms,
     project_names |-> ProjectNames, max_projects |-> MaxProjects,
     project_updates |-> {[name |-> None]}]

Response(op, req, status, value) ==
    [op |-> op, req |-> req, status |-> status, value |-> value]

(* End of a request: get_db closes the session, which gives up whatever the *)
(* request left uncommitted.                                                *)
get_db_close(committed, session) == committed

(* A writer of SpecConc between requests *)
Idle == [pc |-> "idle", prompt_id |-> 0, version_data |-> None,
         max_version |-> 0, targets |-> {}, locked |-> {}, vid |-> 0,
         user |-> None, prompt_data |-> None]

Init ==
    /\ db = [prompts |-> {}, versions |-> {}, projects |-> {}]
    /\ ids = [prompt |-> 0, version |-> 0, project |-> 0]
    /\ last = Response("none", <<>>, 0, None)
    /\ tx = [w \in Writers |-> Idle]

route_create_project(R) ==
    \E user \in R.owners, name \in R.project_names :
        LET r == create_project(db, ids, user, name)
        IN  /\ ids.project < R.max_projects
            /\ db' = r.db
            /\ ids' = r.ids
            /\ last' = Response("create_project", <<>>,
                                IF r.raised = "ValueError" THEN 400 ELSE 201,
                                r.value)
            /\ UNCHANGED tx

(* PUT /projects/{project_id}.  The 404 is raised inside the try block: it  *)
(* is no ValueError, so "except Exception" catches it and answers 500.      *)
route_update_project(R) ==
    \E user \in R.users, project_id \in 1..R.max_projects,
       project_data \in R.project_updates :
        LET r == update_project(db, ids, user, project_id, project_data)
            raised == IF r.raised = "ValueError" THEN "ValueError"
                      ELSE IF r.value = None THEN "HTTPException"
                      ELSE ""
        IN  /\ db' = r.db
            /\ ids' = r.ids
            /\ last' = Response("update_project", <<user, project_id>>,
                                IF raised = "ValueError" THEN 400
                                ELSE IF raised # "" THEN 500
                                ELSE 200,
                                r.value)
            /\ UNCHANGED tx

route_delete_project(R) ==
    \E user \in R.users, project_id \in 1..R.max_projects :
        LET r == delete_project(db, ids, user, project_id)
        IN  /\ db' = r.db
            /\ ids' = r.ids
            /\ last' = Response("delete_project", <<>>,
                                IF r.value THEN 204 ELSE 404, None)
            /\ UNCHANGED tx

route_create_prompt(R) ==
    \E user \in R.owners, name \in R.names, location \in R.locations,
       content \in R.contents, is_public \in R.public,
       project_id \in R.project_ids, commit_message \in R.create_messages :
        LET prompt_data == [name |-> name, location |-> location,
                            content |-> content, is_public |-> is_public,
                            project_id |-> project_id,
                            commit_message |-> commit_message]
            r == create_prompt(db, ids, user, prompt_data)
        IN  /\ ids.prompt < MaxPrompts
            /\ ids.version < MaxVersions
            /\ db' = r.db
            /\ ids' = r.ids
            /\ last' = Response("create_prompt", <<>>,
                                IF r.raised = "ValueError" THEN 400 ELSE 201,
                                r.value)
            /\ UNCHANGED tx

route_update_prompt(R) ==
    \E user \in R.users, prompt_id \in PromptIds, prompt_data \in R.updates :
        LET r == update_prompt(db, ids, user, prompt_id, prompt_data)
        IN  /\ db' = r.db
            /\ ids' = r.ids
            /\ last' = Response("update_prompt", <<>>,
                                IF r.raised = "ValueError" THEN 400
                                ELSE IF r.value = None THEN 404 ELSE 200,
                                r.value)
            /\ UNCHANGED tx

route_delete_prompt(R) ==
    \E user \in R.users, prompt_id \in PromptIds :
        LET r == delete_prompt(db, ids, user, prompt_id)
        IN  /\ db' = r.db
            /\ ids' = r.ids
            /\ last' = Response("delete_prompt", <<>>,
                                IF r.value THEN 204 ELSE 404, None)
            /\ UNCHANGED tx

route_create_version(R) ==
    \E user \in R.users, prompt_id \in PromptIds, content \in R.contents,
       commit_message \in R.create_messages :
        LET version_data == [content |-> content,
                             commit_message |-> commit_message]
            r == create_version(db, ids, user, prompt_id, version_data)
        IN  /\ ids.version < MaxVersions
            /\ db' = r.db
            /\ ids' = r.ids
            /\ last' = Response("create_version", <<prompt_id>>,
                                IF r.value = None THEN 404 ELSE 201, r.value)
            /\ UNCHANGED tx

(* str.format(version_number=...) on the caller's message *)
Format(message, version_number) ==
    IF message = "back to {version_number}"
    THEN "back to " \o ToString(version_number)
    ELSE message

route_restore_version(R) ==
    \E user \in R.users, prompt_id \in PromptIds,
       version_number \in VersionNumbers, restore_data \in R.restore_data :
        LET commit_message ==
                IF restore_data # None /\ Truthy(restore_data[1])
                THEN Some(Format(restore_data[1][1], version_number))
                ELSE None
        IN  \E version_to_restore \in
                  First(get_version(db, user, prompt_id, version_number)) :
            LET r == restore_version(db, ids, user, prompt_id, version_number,
                                     commit_message, version_to_restore)
            IN  /\ ids.version < MaxVersions
                /\ db' = r.db
                /\ ids' = r.ids
                /\ last' = Response("restore_version",
                                    <<prompt_id, version_number,
                                      commit_message>>,
                                    IF r.value = None THEN 404 ELSE 200,
                                    r.value)
                /\ UNCHANGED tx

(* Mutant of route_update_version: the content is rewritten as well *)
route_update_version_with_content(R) ==
    \E user \in R.users, prompt_id \in PromptIds,
       version_number \in VersionNumbers,
       commit_message \in R.version_messages, content \in R.contents :
        \E version \in First(get_version(db, user, prompt_id, version_number)) :
            /\ db' = IF version # None /\ commit_message # None
                     THEN [db EXCEPT !.versions = (@ \ {version[1]}) \cup
                              {[version[1] EXCEPT
                                  !.commit_message = commit_message,
                                  !.content = content]}]
                     ELSE db
            /\ last' = Response("update_version",
                                <<prompt_id, version_number>>,
                                IF version = None THEN 404 ELSE 200, None)
            /\ UNCHANGED <<ids, tx>>

(* PUT /{prompt_id}/versions/{version_number}: only the commit message *)
(* PUT /prompts/{prompt_id}/versions/{version_number}, after the lookup of  *)
(* the version for the caller                                               *)
update_version(d, version, commit_message) ==
    [db |-> IF version # None /\ commit_message # None
            THEN [d EXCEPT !.versions = (@ \ {version[1]}) \cup
                     {[version[1] EXCEPT !.commit_message = commit_message]}]
            ELSE d,
     status |-> IF version = None THEN 404 ELSE 200]

route_update_version(R) ==
    \E user \in R.users, prompt_id \in PromptIds,
       version_number \in VersionNumbers,
       commit_message \in R.version_messages :
        \E version \in First(get_version(db, user, prompt_id, version_number)) :
            LET r == update_version(db, version, commit_message)
            IN  /\ db' = r.db
                /\ last' = Response("update_version",
                                    <<prompt_id, version_number>>,
                                    r.status, None)
                /\ UNCHANGED <<ids, tx>>

(* Mutant of IncludePrivate: any authenticated user *)
IncludePrivateAnyUser(user, is_api_key_auth) == user # None

(* include_private = bool(user and is_api_key_auth) *)
IncludePrivate(user, is_api_key_auth) == user # None /\ is_api_key_auth

route_list_prompts(R) ==
    \E user_auth \in R.auths :
        LET user == user_auth[1]
            include_private == IncludePrivate(user, user_auth[2])
            search_params == [project_name |-> None]
            prompts == list_prompts(db, user, search_params, include_private)
        IN  /\ last' = Response("list_prompts", <<>>, 200,
                                {p.id : p \in prompts})
            /\ UNCHANGED <<db, ids, tx>>

route_search_prompts_by_content(R) ==
    \E user_auth \in R.auths, q \in R.terms :
        LET user == user_auth[1]
            include_private == IncludePrivate(user, user_auth[2])
            prompts == search_prompts_by_content(db, user, q, include_private)
        IN  /\ last' = Response("search_prompts_by_content", <<>>, 200,
                                {p.id : p \in prompts})
            /\ UNCHANGED <<db, ids, tx>>

(* Mutant of get_prompt: a prompt that exists but is not served gives 403 *)
get_prompt_forbidden(d, prompt_id, user_auth) ==
    LET prompt == get_prompt_public_or_private(d, prompt_id, user_auth[1])
    IN  IF prompt = {} /\ \E p \in d.prompts : p.id = prompt_id
        THEN [status |-> 403, detail |-> "Not enough permissions", body |-> {}]
        ELSE IF prompt = {}
        THEN [status |-> 404, detail |-> "Prompt not found or not accessible",
              body |-> {}]
        ELSE [status |-> 200, detail |-> "",
              body |-> {[prompt |-> p, current_version |-> current_version(d, p)] :
                           p \in prompt}]

(* GET /{prompt_id}: what the route answers, status, error detail and the   *)
(* PromptResponse body (the prompt with its current version)                *)
get_prompt(d, prompt_id, user_auth) ==
    LET prompt == get_prompt_public_or_private(d, prompt_id, user_auth[1])
    IN  IF prompt = {}
        THEN [status |-> 404, detail |-> "Prompt not found or not accessible",
              body |-> {}]
        ELSE [status |-> 200, detail |-> "",
              body |-> {[prompt |-> p, current_version |-> current_version(d, p)] :
                           p \in prompt}]

route_get_prompt(R) ==
    \E user_auth \in R.auths, prompt_id \in PromptIds :
        LET r == get_prompt(db, prompt_id, user_auth)
        IN  /\ last' = Response("get_prompt", <<>>, r.status,
                                {b.prompt.id : b \in r.body})
            /\ UNCHANGED <<db, ids, tx>>

(* GET /download/by-project/{project_name} *)
route_download_prompts_by_project(R) ==
    \E user_auth \in R.auths, project_name \in ProjectNames,
       include_content \in BOOLEAN :
        LET user == user_auth[1]
            include_private == IncludePrivate(user, user_auth[2])
            download_params == [project_name |-> Some(project_name),
                                include_content |-> include_content]
            r == download_prompts(db, ids, user, download_params,
                                  include_private)
        IN  /\ db' = get_db_close(db, r.db)
            /\ last' = Response("download_prompts", <<>>, 200,
                                {<<p.id, {v.content : v \in current_version(r.db, p)}>> :
                                    p \in r.value})
            /\ UNCHANGED <<ids, tx>>

(* PromptService.get_prompt_by_location, which no route of routes.py calls *)
(* order_by(Prompt.updated_at.desc()): the rows do not carry updated_at, so *)
(* every order of the rows is one the query can return                      *)
OrderedByUpdatedAt(rows) ==
    {s \in [1..Cardinality(rows) -> rows] :
        \A j, k \in 1..Cardinality(rows) : j # k => s[j] # s[k]}

(* .offset(offset).limit(page_size)                                         *)
OffsetLimit(ordered, offset, page_size) ==
    [k \in 1..(IF Len(ordered) - offset > page_size THEN page_size
               ELSE IF Len(ordered) - offset > 0 THEN Len(ordered) - offset
               ELSE 0) |-> ordered[offset + k]]

(* Mutant of Paginate: the offset is page * page_size                       *)
PaginateFromNextPage(query, page, page_size) ==
    {[prompts |-> OffsetLimit(ordered, page * page_size, page_size),
      total |-> Cardinality(query)] : ordered \in OrderedByUpdatedAt(query)}

(* total = query.count(), then the page of the ordered query                *)
Paginate(query, page, page_size) ==
    {[prompts |-> OffsetLimit(ordered, (page - 1) * page_size, page_size),
      total |-> Cardinality(query)] : ordered \in OrderedByUpdatedAt(query)}

(* math.ceil(total / page_size): the least integer not below the quotient   *)
math_ceil(total, page_size) ==
    CHOOSE n \in 0..total :
        /\ n * page_size >= total
        /\ \A m \in 0..total : m * page_size >= total => n <= m

PromptListResponse(paged, page, page_size) ==
    [prompts |-> [k \in 1..Len(paged.prompts) |-> paged.prompts[k].id],
     total |-> paged.total, page |-> page, page_size |-> page_size,
     total_pages |-> IF paged.total > 0
                     THEN math_ceil(paged.total, page_size) ELSE 0]

(* GET /prompts with page and page_size given; route_list_prompts above is  *)
(* the same route with the defaults page = 1 and page_size = 20, a page     *)
(* that holds every prompt of the store                                     *)
route_list_prompts_page(R) ==
    \E user_auth \in R.auths, page \in 1..MaxPage, page_size \in 1..MaxPageSize :
        LET user == user_auth[1]
            include_private == IncludePrivate(user, user_auth[2])
            search_params == [project_name |-> None]
            query == list_prompts(db, user, search_params, include_private)
        IN  \E paged \in Paginate(query, page, page_size) :
                /\ last' = Response("GET /prompts",
                                    <<user_auth, page, page_size>>, 200,
                                    PromptListResponse(paged, page, page_size))
                /\ UNCHANGED <<db, ids, tx>>

(* GET /prompts/search with page and page_size given                        *)
route_search_prompts_by_content_page(R) ==
    \E user_auth \in R.auths, q \in R.terms, page \in 1..MaxPage,
       page_size \in 1..MaxPageSize :
        LET user == user_auth[1]
            include_private == IncludePrivate(user, user_auth[2])
            query == search_prompts_by_content(db, user, q, include_private)
        IN  \E paged \in Paginate(query, page, page_size) :
                /\ last' = Response("GET /prompts/search",
                                    <<user_auth, page, page_size, q>>, 200,
                                    PromptListResponse(paged, page, page_size))
                /\ UNCHANGED <<db, ids, tx>>

(* The prompt router: its routes in the order the decorators register them. *)
(* A path is the sequence of segments after /prompts; "/" and "" are both   *)
(* the empty path.                                                          *)
PathParams == {"{prompt_id}", "{version_number}", "{version1}", "{version2}",
               "{project_name}"}

Route(method, path, endpoint) ==
    [method |-> method, path |-> path, endpoint |-> endpoint]

router ==
    << Route("POST", <<>>, "create_prompt"),
       Route("GET", <<>>, "list_prompts"),
       Route("GET", <<"search">>, "search_prompts_by_content"),
       Route("GET", <<"{prompt_id}">>, "get_prompt"),
       Route("PUT", <<"{prompt_id}">>, "update_prompt"),
       Route("DELETE", <<"{prompt_id}">>, "delete_prompt"),
       Route("POST", <<"{prompt_id}", "versions">>, "create_version"),
       Route("GET", <<"{prompt_id}", "versions">>, "list_versions"),
       Route("GET", <<"{prompt_id}", "versions", "{version_number}">>,
             "get_version"),
       Route("PUT", <<"{prompt_id}", "versions", "{version_number}">>,
             "update_version"),
       Route("POST", <<"{prompt_id}", "restore", "{version_number}">>,
             "restore_version"),
       Route("GET", <<"{prompt_id}", "diff", "{version1}", "{version2}">>,
             "compare_versions"),
       Route("GET", <<"download">>, "download_prompts"),
       Route("GET", <<"download", "by-project", "{project_name}">>,
             "download_prompts_by_project") >>

(* A route matches when the method is its method and every segment is the   *)
(* route's literal or stands in the place of a path parameter               *)
Matches(route, method, path) ==
    /\ route.method = method
    /\ Len(route.path) = Len(path)
    /\ \A k \in 1..Len(path) :
          route.path[k] \in PathParams \/ route.path[k] = path[k]

(* The first registered route that matches handles the request              *)
Dispatch(method, path) ==
    LET hits == {k \in DOMAIN router : Matches(router[k], method, path)}
    IN  IF hits = {} THEN ""
        ELSE router[CHOOSE k \in hits : \A h \in hits : k <= h].endpoint

(* prompt_id: str, taken from the path segment; a segment that is not the   *)
(* id of the store's numbering is the id of no prompt                       *)
PromptIdOfSegment(segment) ==
    IF \E k \in PromptIds : ToString(k) = segment
    THEN CHOOSE k \in PromptIds : ToString(k) = segment
    ELSE 0

GetPaths == {<<"search">>, <<"download">>} \cup {<<ToString(k)>> : k \in PromptIds}

(* A GET request for /prompts/<segment>, served by the endpoint the router  *)
(* dispatches it to                                                         *)
http_get(R) ==
    \E user_auth \in R.auths, path \in GetPaths, q \in R.terms :
        LET endpoint == Dispatch("GET", path)
            user == user_auth[1]
            include_private == IncludePrivate(user, user_auth[2])
            found == search_prompts_by_content(db, user, q, include_private)
            download_params == [project_name |-> None,
                                include_content |-> TRUE]
            d == download_prompts(db, ids, user, download_params,
                                  include_private)
            r == get_prompt(db, PromptIdOfSegment(path[1]), user_auth)
        IN  /\ db' = IF endpoint = "download_prompts"
                     THEN get_db_close(db, d.db) ELSE db
            /\ last' =
                  CASE endpoint = "search_prompts_by_content" ->
                         Response(endpoint, <<"GET", path>>, 200,
                                  {p.id : p \in found})
                    [] endpoint = "download_prompts" ->
                         Response(endpoint, <<"GET", path>>, 200,
                                  {p.id : p \in d.value})
                    [] endpoint = "get_prompt" ->
                         Response(endpoint, <<"GET", path>>, r.status,
                                  {b.prompt.id : b \in r.body})
                    [] OTHER ->
                         Response(endpoint, <<"GET", path>>, 404, {})
            /\ UNCHANGED <<ids, tx>>

call_get_prompt_by_location(R) ==
    \E user_auth \in R.auths, location \in R.locations,
       include_private \in BOOLEAN :
        \E prompt \in First(get_prompt_by_location(db, user_auth[1], location,
                                                   include_private)) :
            /\ last' = Response("get_prompt_by_location", <<>>, 200,
                                IF prompt = None THEN {} ELSE {prompt[1].id})
            /\ UNCHANGED <<db, ids, tx>>

route_list_versions(R) ==
    \E user \in R.users, prompt_id \in PromptIds :
        \E versions \in list_versions(db, user, prompt_id) :
            /\ last' = Response("list_versions", <<>>, 200,
                                versions)
            /\ UNCHANGED <<db, ids, tx>>

route_get_version(R) ==
    \E user \in R.users, prompt_id \in PromptIds,
       version_number \in VersionNumbers :
        \E version \in First(get_version(db, user, prompt_id, version_number)) :
            /\ last' = Response("get_version", <<>>,
                                IF version = None THEN 404 ELSE 200, version)
            /\ UNCHANGED <<db, ids, tx>>

(* GET /{prompt_id}/diff/{version1}/{version2}; after the diff the route    *)
(* fetches the two versions once more for its response                      *)
route_compare_versions(R) ==
    \E user \in R.users, prompt_id \in PromptIds,
       version1 \in VersionNumbers, version2 \in VersionNumbers :
        \E v1 \in First(get_version(db, user, prompt_id, version1)),
           v2 \in First(get_version(db, user, prompt_id, version2)) :
            LET diff == compare_versions(db, user, prompt_id, version1,
                                         version2, v1, v2)
            IN  \E r1 \in First(get_version(db, user, prompt_id, version1)),
                   r2 \in First(get_version(db, user, prompt_id, version2)) :
                    /\ last' = Response("compare_versions",
                                        <<prompt_id, version1, version2>>,
                                        IF diff = None THEN 404 ELSE 200,
                                        IF diff = None THEN None
                                        ELSE Some([diff |-> diff[1],
                                                   version1 |-> r1[1].id,
                                                   version2 |-> r2[1].id]))
                    /\ UNCHANGED <<db, ids, tx>>

Serve(R) ==
    \/ route_create_project(R)
    \/ route_delete_project(R)
    \/ route_create_prompt(R)
    \/ route_update_prompt(R)
    \/ route_delete_prompt(R)
    \/ route_create_version(R)
    \/ route_restore_version(R)
    \/ route_update_version(R)
    \/ route_list_prompts(R)
    \/ route_search_prompts_by_content(R)
    \/ route_get_prompt(R)
    \/ route_download_prompts_by_project(R)
    \/ call_get_prompt_by_location(R)
    \/ route_list_versions(R)
    \/ route_get_version(R)

----------------------------------------------------------------------------
(* Spec: the version chain.  A owns the prompts, B asks for them too;       *)
(* contents, restores and restore messages vary.                            *)

NoUpdate == [name |-> None, location |-> None, is_public |-> None,
             project_id |-> None]

VersionRequests ==
    [Requests EXCEPT
        !.owners = {"A"}, !.public = {FALSE}, !.project_ids = {None},
        !.create_messages = {None}, !.updates = {NoUpdate},
        !.version_messages = {None},
        !.auths = {<<Some("A"), FALSE>>}, !.terms = {<<"a">>}]

Next == Serve(VersionRequests)

Spec == Init /\ [][Next]_vars

(* SpecStore: prompts in and out of projects, deleted with them; commit     *)
(* messages rewritten; downloads with and without content.                  *)

StoreRequests ==
    [Requests EXCEPT
        !.owners = {"A"}, !.public = {FALSE}, !.create_messages = {None},
        !.updates = {[NoUpdate EXCEPT !.project_id = Some(j)] : j \in ProjectIds},
        !.version_messages = {Some("msg")},
        !.restore_data = {None},
        !.auths = {<<Some("A"), FALSE>>}, !.terms = {<<"a">>}]

NextStore == Serve(StoreRequests)

SpecStore == Init /\ [][NextStore]_vars

(* SpecVisibility: two owners, public and private prompts, every kind of    *)
(* requester.                                                               *)

VisibilityRequests ==
    [Requests EXCEPT
        !.names = {"x"}, !.contents = {<<"a">>}, !.project_ids = {None},
        !.create_messages = {None},
        !.updates = {[NoUpdate EXCEPT !.is_public = Some(b)] : b \in BOOLEAN},
        !.version_messages = {None}, !.restore_data = {None}]

NextVisibility == Serve(VisibilityRequests)

SpecVisibility == Init /\ [][NextVisibility]_vars


(* SpecNames: two owners create and rename prompts, inside and outside of   *)
(* each other's projects.                                                   *)

NameRequests ==
    [Requests EXCEPT
        !.contents = {<<"a">>}, !.public = {FALSE}, !.create_messages = {None},
        !.updates = {[NoUpdate EXCEPT !.name = Some(n)] : n \in Names},
        !.version_messages = {None}, !.restore_data = {None},
        !.auths = {<<Some("A"), FALSE>>}, !.terms = {<<"a">>}]

NextNames == Serve(NameRequests)

SpecNames == Init /\ [][NextNames]_vars


(* SpecDiff: versions with one, two and three lines, with and without a     *)
(* line end, created, restored and compared by the owner and by another     *)
(* user.                                                                    *)

DiffContents == {<<"a">>, <<"a", "\n">>, <<"a", "\n", "b">>}

DiffRequests ==
    [VersionRequests EXCEPT
        !.names = {"x"}, !.contents = DiffContents, !.restore_data = {None}]

NextDiff == Serve(DiffRequests) \/ route_compare_versions(DiffRequests)

SpecDiff == Init /\ [][NextDiff]_vars


(* SpecProjects: two owners, up to MaxRenamedProjects projects that are     *)
(* created, renamed and deleted, prompts created in them and moved between  *)
(* them.                                                                    *)

RenamedProjectNames == {"j", "k"}

ProjectRequests ==
    [Requests EXCEPT
        !.names = {"x"},
        !.contents = {<<"a">>}, !.public = {FALSE}, !.create_messages = {None},
        !.project_ids = Opt(1..MaxRenamedProjects),
        !.updates = {[name |-> None, location |-> None,
                      is_public |-> None, project_id |-> Some(j)] :
                         j \in 1..MaxRenamedProjects},
        !.version_messages = {None}, !.restore_data = {None},
        !.auths = {<<Some("A"), FALSE>>}, !.terms = {<<"a">>},
        !.project_names = RenamedProjectNames,
        !.max_projects = MaxRenamedProjects,
        !.project_updates = {[name |-> Some(n)] : n \in RenamedProjectNames}]

NextProjects == Serve(ProjectRequests) \/ route_update_project(ProjectRequests)

SpecProjects == Init /\ [][NextProjects]_vars


(* SpecUpdates: every update_prompt request carries a new name, a new       *)
(* visibility and a project at once.                                        *)

UpdateRequests ==
    [Requests EXCEPT
        !.contents = {<<"a">>}, !.public = {FALSE}, !.create_messages = {None},
        !.project_ids = {None},
        !.updates = {[name |-> Some(n), location |-> Some("p.md"),
                      is_public |-> Some(TRUE), project_id |-> Some(j)] :
                         n \in Names, j \in ProjectIds},
        !.version_messages = {None}, !.restore_data = {None},
        !.auths = {<<Some("A"), FALSE>>}, !.terms = {<<"a">>}]

NextUpdates == Serve(UpdateRequests)

SpecUpdates == Init /\ [][NextUpdates]_vars


(* SpecPages: the owner and an anonymous requester list and search page by  *)
(* page.                                                                    *)

PageRequests ==
    [VersionRequests EXCEPT
        !.users = {"A"}, !.restore_data = {None},
        !.auths = {<<None, FALSE>>, <<Some("A"), FALSE>>}]

NextPages ==
    \/ Serve(PageRequests)
    \/ route_list_prompts_page(PageRequests)
    \/ route_search_prompts_by_content_page(PageRequests)

SpecPages == Init /\ [][NextPages]_vars


(* SpecRouting: GET requests for /prompts/search, /prompts/download and     *)
(* /prompts/<id> go through the router.                                     *)

NextRouting == Serve(VisibilityRequests) \/ http_get(VisibilityRequests)

SpecRouting == Init /\ [][NextRouting]_vars


----------------------------------------------------------------------------
(* SpecConc: create_version and restore_version statement by statement.     *)
(* Each writer runs its request in a session of its own: its SELECTs read   *)
(* the committed rows and its own pending rows, its UPDATE and INSERT stay  *)
(* pending until db.commit() publishes them together.  A row one writer has *)
(* updated is locked against the others' UPDATE until that writer commits.  *)
(* prompt_versions has the plain index ix_prompt_version on (prompt_id,     *)
(* version_number): nothing rejects an INSERT of a number already taken.    *)

ConcRequests ==
    [Requests EXCEPT
        !.users = {"A"}, !.owners = {"A"}, !.names = {"x"},
        !.public = {FALSE}, !.project_ids = {None},
        !.create_messages = {None}, !.restore_data = {None}]

InFlight(w) == tx[w].pc \in {"got_prompt", "got_max", "updating", "updated"}

conc_create_prompt == route_create_prompt(ConcRequests)

(* prompt = get_prompt_by_id(...); if not prompt: return None *)
begin_create_version(w) ==
    \E user \in ConcRequests.users, prompt_id \in PromptIds,
       content \in ConcRequests.contents :
        /\ tx[w].pc = "idle"
        /\ ids.version + Cardinality({x \in Writers : InFlight(x)}) < MaxVersions
        /\ IF get_prompt_by_id(db, user, prompt_id) = {}
           THEN /\ last' = Response("create_version", <<prompt_id>>, 404, None)
                /\ UNCHANGED tx
           ELSE /\ tx' = [tx EXCEPT ![w] =
                            [Idle EXCEPT !.pc = "got_prompt",
                                         !.prompt_id = prompt_id,
                                         !.version_data =
                                            Some([content |-> content,
                                                  commit_message |-> None])]]
                /\ UNCHANGED last
        /\ UNCHANGED <<db, ids>>

(* restore_version up to its call of create_version *)
begin_restore_version(w) ==
    \E user \in ConcRequests.users, prompt_id \in PromptIds,
       version_number \in VersionNumbers :
        \E version_to_restore \in
              First(get_version(db, user, prompt_id, version_number)) :
            /\ tx[w].pc = "idle"
            /\ ids.version + Cardinality({x \in Writers : InFlight(x)}) < MaxVersions
            /\ IF version_to_restore = None
               THEN /\ last' = Response("restore_version",
                                        <<prompt_id, version_number, None>>,
                                        404, None)
                    /\ UNCHANGED tx
               ELSE /\ tx' = [tx EXCEPT ![w] =
                                [Idle EXCEPT
                                    !.pc = "got_prompt",
                                    !.prompt_id = prompt_id,
                                    !.version_data =
                                        Some([content |-> version_to_restore[1].content,
                                              commit_message |->
                                                 Some(RestoreMessage(version_number))])]]
                    /\ UNCHANGED last
            /\ UNCHANGED <<db, ids>>

(* max_version = db.query(func.max(...)).scalar() or 0 *)
select_max(w) ==
    /\ tx[w].pc = "got_prompt"
    /\ tx' = [tx EXCEPT ![w].pc = "got_max",
                        ![w].max_version =
                            MaxNumber(VersionsOf(db.versions, tx[w].prompt_id))]
    /\ UNCHANGED <<db, ids, last>>

(* The UPDATE ... SET is_current = false starts: it finds the committed     *)
(* rows of the prompt that are current.                                     *)
update_start(w) ==
    /\ tx[w].pc = "got_max"
    /\ tx' = [tx EXCEPT ![w].pc = "updating",
                        ![w].targets =
                            {v.id : v \in {x \in db.versions :
                                             /\ x.prompt_id = tx[w].prompt_id
                                             /\ x.is_current = TRUE}}]
    /\ UNCHANGED <<db, ids, last>>

(* The UPDATE ends once no other writer holds a row it found; it changes    *)
(* the rows it found that are still current.                                *)
update_finish(w) ==
    /\ tx[w].pc = "updating"
    /\ \A x \in Writers \ {w} : tx[x].locked \cap tx[w].targets = {}
    /\ tx' = [tx EXCEPT ![w].pc = "updated",
                        ![w].locked =
                            {v.id : v \in {x \in db.versions :
                                             /\ x.id \in tx[w].targets
                                             /\ x.is_current = TRUE}}]
    /\ UNCHANGED <<db, ids, last>>

(* Mutant of Flush: the flushed rows are visible to every session at once *)
FlushPublishes(committed, pending) == pending

(* db.flush() hands the session's pending rows to the database, inside the  *)
(* writer's transaction: the committed rows stay as they are.               *)
Flush(committed, pending) == committed

(* db.add(new_version); db.flush() *)
insert_version(w) ==
    /\ tx[w].pc = "updated"
    /\ tx' = [tx EXCEPT ![w].pc = "inserted", ![w].vid = ids.version + 1]
    /\ ids' = [ids EXCEPT !.version = @ + 1]
    /\ db' = Flush(db, [db EXCEPT !.versions = @ \cup
                {PromptVersionRow(ids.version + 1, tx[w].prompt_id,
                                  NextVersion(tx[w].max_version),
                                  tx[w].version_data[1].content,
                                  tx[w].version_data[1].commit_message, TRUE)}])
    /\ UNCHANGED last

(* prompt.current_version_id = new_version.id; db.commit() *)
commit_version(w) ==
    /\ tx[w].pc = "inserted"
    /\ db' = [db EXCEPT
                !.versions =
                    {IF v.id \in tx[w].locked
                     THEN [v EXCEPT !.is_current = FALSE] ELSE v : v \in @}
                    \cup {PromptVersionRow(tx[w].vid, tx[w].prompt_id,
                                           NextVersion(tx[w].max_version),
                                           tx[w].version_data[1].content,
                                           tx[w].version_data[1].commit_message,
                                           TRUE)},
                !.prompts = SetCurrentVersion(@, tx[w].prompt_id, tx[w].vid)]
    /\ last' = Response("create_version", <<tx[w].prompt_id>>, 201,
                        Some(tx[w].vid))
    /\ tx' = [tx EXCEPT ![w] = Idle]
    /\ UNCHANGED ids

(* A reader of the committed rows while writers are under way *)
conc_list_versions ==
    /\ \E w \in Writers : tx[w].pc # "idle"
    /\ route_list_versions(ConcRequests)

NextConc ==
    \/ conc_create_prompt
    \/ \E w \in Writers :
          \/ begin_create_version(w)
          \/ begin_restore_version(w)
          \/ select_max(w)
          \/ update_start(w)
          \/ update_finish(w)
          \/ insert_version(w)
          \/ commit_version(w)
    \/ conc_list_versions

SpecConc == Init /\ [][NextConc]_vars


----------------------------------------------------------------------------
(* SpecConcNames: create_prompt and update_prompt (rename) statement by     *)
(* statement, each writer in a session of its own.  The existence checks    *)
(* read the committed rows; db.add + db.flush leave the rows pending in the *)
(* writer's transaction; db.commit() publishes them.  prompts has the plain *)
(* index ix_user_prompt_name on (user_id, name): nothing rejects a second   *)
(* row with a name already taken.                                           *)

ConcNameRequests ==
    [Requests EXCEPT
        !.users = {"A"}, !.owners = {"A"}, !.public = {FALSE},
        !.project_ids = {None}, !.create_messages = {None},
        !.updates = {[NoUpdate EXCEPT !.name = Some(n)] : n \in Names},
        !.auths = {<<Some("A"), FALSE>>}]

(* Writers that will still ask for a prompt id / a version id *)
WantPromptId == {w \in Writers : tx[w].pc = "checked_create"}

WantVersionId == {w \in Writers : tx[w].pc \in {"checked_create", "prompt_flushed"}}

(* create_prompt up to db.add(db_prompt): the two checks *)
begin_create_prompt(w) ==
    \E user \in ConcNameRequests.owners, name \in ConcNameRequests.names,
       location \in ConcNameRequests.locations,
       content \in ConcNameRequests.contents,
       is_public \in ConcNameRequests.public,
       project_id \in ConcNameRequests.project_ids,
       commit_message \in ConcNameRequests.create_messages :
        LET prompt_data == [name |-> name, location |-> location,
                            content |-> content, is_public |-> is_public,
                            project_id |-> project_id,
                            commit_message |-> commit_message]
            existing_prompt == {p \in db.prompts :
                                   p.user_id = user /\ p.name = name}
        IN  /\ tx[w].pc = "idle"
            /\ ids.prompt + Cardinality(WantPromptId) < MaxPrompts
            /\ ids.version + Cardinality(WantVersionId) < MaxVersions
            /\ IF \/ existing_prompt # {}
                  \/ /\ project_id # None
                     /\ get_project_by_id(db, user, project_id[1]) = {}
               THEN /\ last' = Response("create_prompt", <<>>, 400, None)
                    /\ UNCHANGED tx
               ELSE /\ tx' = [tx EXCEPT ![w] =
                                [Idle EXCEPT !.pc = "checked_create",
                                             !.user = Some(user),
                                             !.prompt_data = Some(prompt_data)]]
                    /\ UNCHANGED last
            /\ UNCHANGED <<db, ids>>

(* The Prompt row a writer holds in its session *)
PendingPrompt(w, pid, cvid) ==
    PromptRow(pid, tx[w].user[1], tx[w].prompt_data[1].project_id,
              tx[w].prompt_data[1].name, tx[w].prompt_data[1].location,
              tx[w].prompt_data[1].is_public, cvid)

(* The initial PromptVersion row a writer holds in its session *)
PendingInitialVersion(w, pid, vid) ==
    PromptVersionRow(vid, pid, 1,
                     tx[w].prompt_data[1].content,
                     IF Truthy(tx[w].prompt_data[1].commit_message)
                     THEN tx[w].prompt_data[1].commit_message
                     ELSE Some("Initial version"),
                     TRUE)

(* db.add(db_prompt); db.flush(): the prompt gets its id *)
insert_prompt(w) ==
    /\ tx[w].pc = "checked_create"
    /\ tx' = [tx EXCEPT ![w].pc = "prompt_flushed",
                        ![w].prompt_id = ids.prompt + 1]
    /\ ids' = [ids EXCEPT !.prompt = @ + 1]
    /\ db' = Flush(db, [db EXCEPT !.prompts = @ \cup
                {PendingPrompt(w, ids.prompt + 1, None)}])
    /\ UNCHANGED last

(* db.add(initial_version); db.flush(): the version gets its id *)
insert_initial_version(w) ==
    /\ tx[w].pc = "prompt_flushed"
    /\ tx' = [tx EXCEPT ![w].pc = "version_flushed",
                        ![w].vid = ids.version + 1]
    /\ ids' = [ids EXCEPT !.version = @ + 1]
    /\ db' = Flush(db, [db EXCEPT !.versions = @ \cup
                {PendingInitialVersion(w, tx[w].prompt_id, ids.version + 1)}])
    /\ UNCHANGED last

(* db_prompt.current_version_id = initial_version.id; db.commit() *)
commit_prompt(w) ==
    /\ tx[w].pc = "version_flushed"
    /\ db' = [db EXCEPT
                !.prompts = {p \in @ : p.id # tx[w].prompt_id}
                              \cup {PendingPrompt(w, tx[w].prompt_id,
                                                 Some(tx[w].vid))},
                !.versions = {v \in @ : v.id # tx[w].vid}
                               \cup {PendingInitialVersion(w, tx[w].prompt_id,
                                                          tx[w].vid)}]
    /\ last' = Response("create_prompt", <<>>, 201, Some(tx[w].prompt_id))
    /\ tx' = [tx EXCEPT ![w] = Idle]
    /\ UNCHANGED ids

(* update_prompt with a new name, up to the assignment: the lookup and the  *)
(* conflict check                                                           *)
begin_update_prompt(w) ==
    \E user \in ConcNameRequests.users, prompt_id \in PromptIds,
       prompt_data \in ConcNameRequests.updates :
        LET prompt == get_prompt_by_id(db, user, prompt_id)
            existing_prompt == {p \in db.prompts :
                                   /\ p.user_id = user
                                   /\ p.name = prompt_data.name[1]
                                   /\ p.id # prompt_id}
        IN  /\ tx[w].pc = "idle"
            /\ IF prompt = {}
               THEN /\ last' = Response("update_prompt", <<>>, 404, None)
                    /\ UNCHANGED tx
               ELSE IF /\ Truthy(prompt_data.name)
                       /\ \E p \in prompt : prompt_data.name[1] # p.name
                       /\ existing_prompt # {}
               THEN /\ last' = Response("update_prompt", <<>>, 400, None)
                    /\ UNCHANGED tx
               ELSE /\ tx' = [tx EXCEPT ![w] =
                                [Idle EXCEPT !.pc = "checked_update",
                                             !.user = Some(user),
                                             !.prompt_id = prompt_id,
                                             !.prompt_data = Some(prompt_data)]]
                    /\ UNCHANGED last
            /\ UNCHANGED <<db, ids>>

(* prompt.name = prompt_data.name; db.commit() *)
commit_update_prompt(w) ==
    /\ tx[w].pc = "checked_update"
    /\ db' = [db EXCEPT !.prompts =
                {IF p.id = tx[w].prompt_id /\ tx[w].prompt_data[1].name # None
                 THEN [p EXCEPT !.name = tx[w].prompt_data[1].name[1]]
                 ELSE p : p \in @}]
    /\ last' = Response("update_prompt", <<>>, 200, Some(tx[w].prompt_id))
    /\ tx' = [tx EXCEPT ![w] = Idle]
    /\ UNCHANGED ids

(* A reader of the committed rows while writers are under way *)
conc_get_prompt ==
    /\ \E w \in Writers : tx[w].pc # "idle"
    /\ route_get_prompt(ConcNameRequests)

NextConcNames ==
    \/ \E w \in Writers :
          \/ begin_create_prompt(w)
          \/ insert_prompt(w)
          \/ insert_initial_version(w)
          \/ commit_prompt(w)
          \/ begin_update_prompt(w)
          \/ commit_update_prompt(w)
    \/ conc_get_prompt

SpecConcNames == Init /\ [][NextConcNames]_vars


----------------------------------------------------------------------------
(* Properties *)

Owner(d, prompt_id) == {p.user_id : p \in {q \in d.prompts : q.id = prompt_id}}

NewVersions == {v \in db'.versions : \A u \in db.versions : u.id # v.id}

RestoreDone == last'.op = "restore_version" /\ last'.status = 200

(* C1: for every prompt, list_versions asked by its owner returns all N     *)
(* versions of the prompt, numbered N, N-1, ..., 1 in that order, exactly   *)
(* one of them current, and that one is the version numbered N.             *)
C1_ListVersionsDescending ==
    \A p \in db.prompts :
        \A l \in list_versions(db, p.user_id, p.id) :
            LET N == Cardinality(VersionsOf(db.versions, p.id))
            IN  /\ N >= 1
                /\ Len(l) = N
                /\ \A i \in 1..N : l[i].version_number = N - i + 1
                /\ {i \in 1..N : l[i].is_current = TRUE} = {1}

C1_Witness ==
    /\ last.op = "list_versions"
    /\ Len(last.value) = 3
    /\ last.value[1].commit_message = Some("Restored from version 1")
    /\ last.value[1].is_current = TRUE

(* C2: in every committed state the prompt's current_version_id names       *)
(* exactly the one version of the prompt whose is_current flag is set.      *)
C2_PointerIsTheOneCurrent ==
    \A p \in db.prompts :
        {Some(v.id) : v \in {x \in VersionsOf(db.versions, p.id) :
                               x.is_current = TRUE}}
            = {p.current_version_id}

(* C3: under concurrent writers no two versions of a prompt share a         *)
(* version_number and the numbers of a prompt are 1..N without a gap.       *)
C3_NumbersUniqueGapFree ==
    \A p \in db.prompts :
        LET mine == VersionsOf(db.versions, p.id)
        IN  /\ \A v, w \in mine : v.version_number = w.version_number => v = w
            /\ {v.version_number : v \in mine} = 1..Cardinality(mine)

(* C4: every prompt's current_version_id, if set, is the id of an existing  *)
(* version of that same prompt.                                             *)
C4_PointerInOwnChain ==
    \A p \in db.prompts :
        p.current_version_id # None =>
            \E v \in db.versions :
                v.id = p.current_version_id[1] /\ v.prompt_id = p.id

C4_Witness ==
    /\ last.op = "delete_project"
    /\ last.status = 204
    /\ \E p \in db.prompts :
          /\ p.current_version_id # None
          /\ Cardinality(VersionsOf(db.versions, p.id)) = 2

(* C5: no request changes the content or the version_number of a version    *)
(* that exists, and every version a request adds is numbered one above the  *)
(* highest number its prompt had.                                           *)
C5_AppendOnly ==
    [][/\ \A v \in db.versions : \A w \in db'.versions :
             w.id = v.id => /\ w.content = v.content
                            /\ w.version_number = v.version_number
                            /\ w.prompt_id = v.prompt_id
       /\ \A w \in NewVersions :
             w.version_number =
                 MaxNumber(VersionsOf(db.versions, w.prompt_id)) + 1]_vars

C5_Witness ==
    /\ last.op = "download_prompts"
    /\ \E r \in last.value : r[2] = {ContentExcluded}
    /\ \E v \in db.versions : v.version_number = 2 /\ v.commit_message = Some("msg")

(* C6: after a successful restore_version(P, k), get_version(P, k) returns  *)
(* the version it returned before (same id, number, content), and no        *)
(* existing version changed except that the one that was current for P is   *)
(* no longer current.                                                       *)
C6_RestoreKeepsHistory ==
    [][RestoreDone =>
        LET pid == last'.req[1]
            k == last'.req[2]
        IN  /\ \A v \in db.versions :
                  \/ v \in db'.versions
                  \/ /\ v.prompt_id = pid
                     /\ v.is_current = TRUE
                     /\ [v EXCEPT !.is_current = FALSE] \in db'.versions
            /\ \A u \in Owner(db, pid) :
                  /\ get_version(db', u, pid, k) # {}
                  /\ \A w \in get_version(db', u, pid, k) :
                        \E v \in get_version(db, u, pid, k) :
                            /\ w.id = v.id
                            /\ w.version_number = v.version_number
                            /\ w.content = v.content]_vars

C6_Witness ==
    /\ last.op = "restore_version"
    /\ last.status = 200
    /\ last.req[2] = 1
    /\ \E v, w \in db.versions :
          /\ v.prompt_id = last.req[1] /\ w.prompt_id = last.req[1]
          /\ v.version_number = 1 /\ w.version_number = 3
          /\ v.content = w.content
          /\ ~v.is_current /\ w.is_current
    /\ \E x \in db.versions :
          /\ x.prompt_id = last.req[1] /\ x.version_number = 2
          /\ \A v \in db.versions : v.version_number = 1 => v.content # x.content

(* "Restored from version k", written out *)
DefaultRestoreMessage(k) ==
    CASE k = 1 -> "Restored from version 1"
      [] k = 2 -> "Restored from version 2"
      [] k = 3 -> "Restored from version 3"
      [] k = 4 -> "Restored from version 4"
      [] OTHER -> "Restored from version ?"

(* C7: a successful restore_version(P, k) on a prompt with N versions adds  *)
(* exactly one version; it is numbered N+1, has the content of version k,   *)
(* is the current version, and carries "Restored from version k" when the   *)
(* caller gave no commit message.                                           *)
C7_RestoreAppendsCopy ==
    [][RestoreDone =>
        LET pid == last'.req[1]
            k == last'.req[2]
            N == Cardinality(VersionsOf(db.versions, pid))
            source == {v \in db.versions :
                         v.prompt_id = pid /\ v.version_number = k}
        IN  /\ Cardinality(NewVersions) = 1
            /\ source # {}
            /\ \A n \in NewVersions :
                  /\ n.prompt_id = pid
                  /\ n.version_number = N + 1
                  /\ \A v \in source : n.content = v.content
                  /\ n.is_current = TRUE
                  /\ \A v \in VersionsOf(db'.versions, pid) :
                        v.is_current = TRUE => v = n
                  /\ \A q \in db'.prompts :
                        q.id = pid => q.current_version_id = Some(n.id)
                  /\ last'.req[3] = None =>
                        n.commit_message = Some(DefaultRestoreMessage(k))]_vars

C7_Witness ==
    /\ last.op = "restore_version"
    /\ last.status = 200
    /\ last.req[2] = 2
    /\ last.req[3] = None
    /\ \E v, w \in db.versions :
          /\ v.prompt_id = last.req[1] /\ w.prompt_id = last.req[1]
          /\ v.version_number = 2 /\ w.version_number = 3
          /\ v.content = w.content
          /\ w.commit_message = Some("Restored from version 2")
          /\ \E x \in db.versions :
                x.prompt_id = last.req[1] /\ x.version_number = 1
                /\ x.content # v.content


(* What each read path serves to a requester (user or None, is_api_key_auth) *)
ByList(user_auth) ==
    list_prompts(db, user_auth[1], [project_name |-> None],
                 IncludePrivate(user_auth[1], user_auth[2]))

BySearch(user_auth, q) ==
    search_prompts_by_content(db, user_auth[1], q,
                              IncludePrivate(user_auth[1], user_auth[2]))

ByDownload(user_auth, project_name) ==
    download_prompts(db, ids, user_auth[1],
                     [project_name |-> project_name, include_content |-> TRUE],
                     IncludePrivate(user_auth[1], user_auth[2])).value

ByGet(user_auth, prompt_id) ==
    get_prompt_public_or_private(db, prompt_id, user_auth[1])

(* C8: list_prompts returns to an anonymous requester exactly the public    *)
(* prompts, to a session-token user exactly the prompts that user owns, to  *)
(* an API-key user exactly the prompts that user owns and the public ones;  *)
(* is_api_key_auth without a user counts as anonymous.                      *)
C8_ListByMode ==
    \A user_auth \in UserAuth :
        LET user == user_auth[1]
            is_api_key_auth == user_auth[2]
        IN  /\ user = None =>
                ByList(user_auth) = {p \in db.prompts : p.is_public}
            /\ (user # None /\ ~is_api_key_auth) =>
                ByList(user_auth) = {p \in db.prompts : p.user_id = user[1]}
            /\ (user # None /\ is_api_key_auth) =>
                ByList(user_auth) =
                    {p \in db.prompts : p.user_id = user[1] \/ p.is_public}

C8_Witness ==
    /\ last.op = "list_prompts"
    /\ \E p, q \in db.prompts :
          /\ p.user_id = "A" /\ p.is_public
          /\ q.user_id = "B" /\ ~q.is_public
          /\ last.value = {p.id}
          /\ ByList(<<Some("B"), TRUE>>) = {p, q}
          /\ ByList(<<Some("B"), FALSE>>) = {q}

(* C9 as stated: get, list, search-by-content and download serve the same   *)
(* prompts to the same requester in the same mode.                          *)
C9_AllReadPathsAgree ==
    \A user_auth \in UserAuth : \A p \in db.prompts :
        /\ (p \in ByGet(user_auth, p.id)) = (p \in ByList(user_auth))
        /\ (p \in ByList(user_auth)) = (p \in BySearch(user_auth, <<>>))
        /\ (p \in ByList(user_auth)) = (p \in ByDownload(user_auth, None))

(* C9 amended: list, search-by-content and download serve the same prompts  *)
(* to the same requester in the same mode; the single get serves a prompt   *)
(* exactly when it is public or the requester owns it, whatever the mode.   *)
C9_ListSearchDownloadAgree ==
    \A user_auth \in UserAuth : \A p \in db.prompts :
        /\ (p \in ByList(user_auth)) = (p \in BySearch(user_auth, <<>>))
        /\ (p \in ByList(user_auth)) = (p \in ByDownload(user_auth, None))
        /\ (p \in ByGet(user_auth, p.id)) =
              (p.is_public \/ user_auth[1] = Some(p.user_id))

C9_Witness ==
    /\ last.op = "get_prompt"
    /\ last.status = 200
    /\ \E p \in db.prompts :
          /\ p.user_id = "B" /\ p.is_public
          /\ last.value = {p.id}
          /\ p \in ByGet(<<Some("A"), FALSE>>, p.id)
          /\ p \notin ByList(<<Some("A"), FALSE>>)
          /\ p \notin BySearch(<<Some("A"), FALSE>>, <<>>)

(* C10: a private prompt is returned by get, list, search-by-content,       *)
(* download and get-by-location only to its owner.                          *)
C10_PrivateOnlyToOwner ==
    \A user_auth \in UserAuth : \A p \in db.prompts :
        (/\ ~p.is_public
         /\ \/ p \in ByGet(user_auth, p.id)
            \/ p \in ByList(user_auth)
            \/ \E q \in SearchTerms : p \in BySearch(user_auth, q)
            \/ \E n \in Opt(ProjectNames) : p \in ByDownload(user_auth, n)
            \/ \E location \in Locations, include_private \in BOOLEAN :
                  p \in get_prompt_by_location(db, user_auth[1], location,
                                               include_private))
        => user_auth[1] = Some(p.user_id)

C10_Witness ==
    /\ last.op = "get_prompt_by_location"
    /\ \E p, q \in db.prompts :
          /\ ~p.is_public /\ p.user_id = "A"
          /\ q.user_id = "B"
          /\ last.value = {p.id}
          /\ p \in BySearch(<<Some("A"), TRUE>>, <<"a">>)

(* C11 as stated: a public prompt is returned by the visibility filter of   *)
(* list and download in anonymous, session-token and API-key mode, whoever  *)
(* the requester is.                                                        *)
C11_PublicInEveryMode ==
    \A user_auth \in UserAuth : \A p \in db.prompts :
        p.is_public =>
            /\ p \in ByList(user_auth)
            /\ p \in ByDownload(user_auth, None)

(* C11 amended: list and download return a public prompt to every anonymous *)
(* requester and to every API-key user; to a session-token user they return *)
(* it exactly when that user owns it.                                       *)
C11_PublicExceptSessionOfOthers ==
    \A user_auth \in UserAuth : \A p \in db.prompts :
        p.is_public =>
            LET served == \/ user_auth[1] = None
                          \/ user_auth[2] = TRUE
                          \/ user_auth[1] = Some(p.user_id)
            IN  /\ (p \in ByList(user_auth)) = served
                /\ (p \in ByDownload(user_auth, None)) = served

C11_Witness ==
    /\ last.op = "list_prompts"
    /\ last.value = {}
    /\ \E p \in db.prompts :
          /\ p.is_public /\ p.user_id = "B"
          /\ p \notin ByList(<<Some("A"), FALSE>>)
          /\ p \notin ByDownload(<<Some("A"), FALSE>>, None)
          /\ p \in ByList(<<Some("A"), TRUE>>)
          /\ p \in ByDownload(<<None, FALSE>>, None)

(* The store as a requester may know it: without the private prompts of     *)
(* other users and without their versions                                   *)
Hide(d, user) ==
    LET hidden == {p \in d.prompts : ~p.is_public /\ user # Some(p.user_id)}
    IN  [d EXCEPT !.prompts = @ \ hidden,
                  !.versions = {v \in @ : \A p \in hidden : v.prompt_id # p.id}]

(* A prompt id no prompt has: ids are handed out from 1 to MaxPrompts *)
AbsentId == MaxPrompts + 1

(* C12: the single get answers a requester the same (status, detail, body)  *)
(* on two stores that differ only in private prompts the requester does not *)
(* own; for a prompt the requester may not see it answers what it answers   *)
(* for an id that does not exist, a 404 and never a 403.                    *)
C12_GetDoesNotLeakExistence ==
    \A user_auth \in UserAuth :
        /\ \A prompt_id \in PromptIds \cup {AbsentId} :
              /\ get_prompt(db, prompt_id, user_auth)
                    = get_prompt(Hide(db, user_auth[1]), prompt_id, user_auth)
              /\ get_prompt(db, prompt_id, user_auth).status # 403
        /\ \A p \in db.prompts :
              (~p.is_public /\ user_auth[1] # Some(p.user_id)) =>
                  /\ get_prompt(db, p.id, user_auth)
                        = get_prompt(db, AbsentId, user_auth)
                  /\ get_prompt(db, p.id, user_auth).status = 404

C12_Witness ==
    /\ last.op = "get_prompt"
    /\ last.status = 404
    /\ \A prompt_id \in PromptIds :
          \E p \in db.prompts : p.id = prompt_id /\ ~p.is_public
    /\ \E p, q \in db.prompts : p.user_id = "A" /\ q.user_id = "B"

C14_StorageKeepsNamesUnique ==
    \A p, q \in db.prompts :
        (p.id # q.id /\ p.user_id = q.user_id) => p.name # q.name

(* C15: in every committed state each prompt has a version, a version       *)
(* numbered 1 and a current_version_id; the commit of create_prompt makes   *)
(* the prompt visible together with its only version, numbered 1, current,  *)
(* with the supplied content, and pointed to by the prompt.                 *)
C15_CreatedWithFirstVersion ==
    /\ [](\A p \in db.prompts :
            /\ VersionsOf(db.versions, p.id) # {}
            /\ \E v \in VersionsOf(db.versions, p.id) : v.version_number = 1
            /\ p.current_version_id # None)
    /\ [][\A w \in Writers :
            (tx[w].pc = "version_flushed" /\ tx'[w].pc = "idle") =>
                /\ \A p \in db.prompts : p.id # tx[w].prompt_id
                /\ \E p \in db'.prompts :
                      /\ p.id = tx[w].prompt_id
                      /\ p.current_version_id = Some(tx[w].vid)
                /\ \E v \in db'.versions :
                      /\ VersionsOf(db'.versions, tx[w].prompt_id) = {v}
                      /\ v.id = tx[w].vid
                      /\ v.version_number = 1
                      /\ v.is_current = TRUE
                      /\ v.content = tx[w].prompt_data[1].content]_vars

C15_Witness ==
    /\ last.op = "create_prompt"
    /\ last.status = 201
    /\ \E w \in Writers : tx[w].pc = "prompt_flushed"
    /\ \E p \in db.prompts : \E v \in db.versions :
          /\ Some(p.id) = last.value
          /\ VersionsOf(db.versions, p.id) = {v}
          /\ v.content = <<"b">>
          /\ p.current_version_id = Some(v.id)

(* C16: every version's prompt_id is the id of an existing prompt, and      *)
(* delete_prompt(P) by P's owner leaves neither P nor a version of P while  *)
(* the other prompts keep their versions.                                   *)
C16_NoOrphanedVersions ==
    /\ \A v \in db.versions : \E p \in db.prompts : p.id = v.prompt_id
    /\ \A p \in db.prompts :
          LET r == delete_prompt(db, ids, p.user_id, p.id)
          IN  /\ r.value = TRUE
              /\ VersionsOf(r.db.versions, p.id) = {}
              /\ \A q \in r.db.prompts : q.id # p.id
              /\ \A v \in r.db.versions : \E q \in r.db.prompts : q.id = v.prompt_id
              /\ \A q \in db.prompts \ {p} :
                    /\ q \in r.db.prompts
                    /\ VersionsOf(r.db.versions, q.id) = VersionsOf(db.versions, q.id)

C16_Witness ==
    /\ last.op = "delete_prompt"
    /\ last.status = 204
    /\ ids.prompt = 2
    /\ ids.version >= 3
    /\ Cardinality(db.prompts) = 1
    /\ Cardinality(db.versions) = 1

C18_RestoreOfMissingVersion ==
    /\ [](\A user \in Users : \A prompt_id \in PromptIds :
            \A version_number \in 1..(MaxVersions + 1) :
              (\A v \in VersionsOf(db.versions, prompt_id) :
                  v.version_number # version_number) =>
                  \A version_to_restore \in
                        First(get_version(db, user, prompt_id, version_number)) :
                      LET r == restore_version(db, ids, user, prompt_id,
                                               version_number, None,
                                               version_to_restore)
                      IN  r.value = None /\ r.db = db /\ r.ids = ids)
    /\ [][(last'.op = "restore_version" /\ last'.status = 404) =>
             /\ db' = db
             /\ ids' = ids]_vars

C18_Witness ==
    /\ last.op = "restore_version"
    /\ last.status = 404
    /\ last.req[2] = 3
    /\ \E p \in db.prompts : \E v \in db.versions :
          /\ p.id = last.req[1]
          /\ Cardinality(VersionsOf(db.versions, p.id)) = 2
          /\ v.version_number = 2 /\ v.is_current
          /\ p.current_version_id = Some(v.id)

(* C19: for two existing versions a and b of a prompt (a = b included)      *)
(* compare_versions returns the empty diff exactly when the two contents    *)
(* are the same, so also when b was made by restoring a.                    *)
C19_EmptyDiffIffSameContent ==
    \A p \in db.prompts : \A a, b \in VersionNumbers :
        \A v1 \in get_version(db, p.user_id, p.id, a),
           v2 \in get_version(db, p.user_id, p.id, b) :
            LET diff == compare_versions(db, p.user_id, p.id, a, b,
                                         Some(v1), Some(v2))
            IN  /\ diff # None
                /\ (diff[1] = <<>>) = (v1.content = v2.content)

C19_Witness ==
    /\ last.op = "compare_versions"
    /\ last.status = 200
    /\ last.req[2] = 1 /\ last.req[3] = 3
    /\ last.value[1].diff = <<>>
    /\ \E v, w \in VersionsOf(db.versions, last.req[1]) :
          /\ v.version_number = 2
          /\ w.version_number = 3
          /\ w.commit_message = Some("Restored from version 1")
          /\ Some(unified_diff(SplitLines(v.content), SplitLines(w.content),
                               "Version 2", "Version 3"))
                = compare_versions(db, "A", last.req[1], 2, 3, Some(v), Some(w))
          /\ unified_diff(SplitLines(v.content), SplitLines(w.content),
                          "Version 2", "Version 3") # <<>>

(* C20: compare_versions returns None (route: 404) exactly when the prompt  *)
(* is not a prompt of the caller or one of the two numbers is not the       *)
(* number of a version of it, and a compare request changes no row.         *)
C20_CompareNotFound ==
    /\ [](\A user \in Users : \A prompt_id \in PromptIds :
            \A a, b \in 1..(MaxVersions + 1) :
              \A v1 \in First(get_version(db, user, prompt_id, a)),
                 v2 \in First(get_version(db, user, prompt_id, b)) :
                  (compare_versions(db, user, prompt_id, a, b, v1, v2) = None)
                    = (\/ \A p \in db.prompts :
                             ~(p.id = prompt_id /\ p.user_id = user)
                       \/ \A v \in VersionsOf(db.versions, prompt_id) :
                             v.version_number # a
                       \/ \A v \in VersionsOf(db.versions, prompt_id) :
                             v.version_number # b))
    /\ [][last'.op = "compare_versions" =>
             /\ db' = db
             /\ ids' = ids
             /\ (last'.status = 404) = (last'.value = None)
             /\ last'.status \in {200, 404}]_vars

C20_Witness ==
    /\ last.op = "compare_versions"
    /\ last.status = 404
    /\ last.req[2] = 1 /\ last.req[3] = 3
    /\ \E p \in db.prompts :
          /\ p.id = last.req[1]
          /\ {v.version_number : v \in VersionsOf(db.versions, p.id)} = {1, 2}

(* C21: no prompt or project route answers 500 for a service result, and    *)
(* PUT /projects/{project_id} answers 404 when the caller has no project    *)
(* with that id, 400 when the new name is taken.                            *)
C21_AbsentIs404ConflictIs400 ==
    [][(last'.op = "update_project" =>
            /\ (get_project_by_id(db, last'.req[1], last'.req[2]) = {})
                   = (last'.status = 404)
            /\ last'.status \in {200, 400, 404})
       /\ last'.status # 500]_vars

(* C22: when delete_project succeeds, every prompt that was in the deleted  *)
(* project is gone together with all of its versions, and no prompt of the  *)
(* store names the deleted project any more.                                *)
C22_DeleteProjectCascades ==
    [][(last'.op = "delete_project" /\ last'.status = 204) =>
          /\ db.projects \ db'.projects # {}
          /\ \A J \in db.projects \ db'.projects :
                /\ \A p \in db.prompts :
                      p.project_id = Some(J.id) =>
                          /\ \A q \in db'.prompts : q.id # p.id
                          /\ \A v \in db'.versions : v.prompt_id # p.id
                /\ \A q \in db'.prompts : q.project_id # Some(J.id)]_vars

(* C22 witness: a project was deleted after two prompts with three versions *)
(* were created, and neither a prompt nor a version is left.                *)
C22_Witness ==
    /\ last.op = "delete_project"
    /\ last.status = 204
    /\ ids.prompt = 2
    /\ ids.version = 3
    /\ db.prompts = {}
    /\ db.versions = {}

C24_FailedUpdateChangesNothing ==
    /\ [](\A user \in Users, prompt_id \in PromptIds,
          prompt_data \in PromptUpdates :
          LET r == update_prompt(db, ids, user, prompt_id, prompt_data)
          IN  /\ r.raised = "ValueError" => (r.db = db /\ r.ids = ids)
              /\ \A p \in get_prompt_by_id(db, user, prompt_id) :
                    (\/ /\ prompt_data.name \notin {None, Some(p.name)}
                        /\ \E q \in db.prompts :
                              /\ q.user_id = user
                              /\ q.id # p.id
                              /\ Some(q.name) = prompt_data.name
                     \/ /\ prompt_data.project_id # None
                        /\ \A j \in db.projects :
                              Some(j.id) = prompt_data.project_id
                                  => j.user_id # user)
                    => r.raised = "ValueError")
    /\ [][(last'.op = "update_prompt" /\ last'.status = 400)
             => db' = db]_vars

(* C24 witness: the caller owns the project the request named, the request  *)
(* also made the prompt public, and it was answered 400 for its name: both  *)
(* prompts are still private and outside the project.                       *)
C24_Witness ==
    /\ last.op = "update_prompt"
    /\ last.status = 400
    /\ \E p, q \in db.prompts :
          /\ p.id # q.id
          /\ p.user_id = q.user_id
          /\ ~p.is_public /\ ~q.is_public
          /\ p.project_id = None /\ q.project_id = None
          /\ \E j \in db.projects : j.user_id = p.user_id

(* C25: search_prompts_by_content returns exactly the prompts list_prompts  *)
(* returns to the same requester in the same mode whose newest version,     *)
(* the one create_version or restore_version made current, contains the     *)
(* term; after restore_version of version n the term finds the prompt when  *)
(* and only when it occurs in version n.                                    *)
C25_SearchMatchesCurrentContent ==
    /\ [](\A user_auth \in UserAuth, q \in SearchTerms :
            /\ BySearch(user_auth, q) \subseteq ByList(user_auth)
            /\ \A p \in ByList(user_auth) :
                  (p \in BySearch(user_auth, q)) =
                      (\E v \in VersionsOf(db.versions, p.id) :
                          /\ v.version_number = MaxNumber(VersionsOf(db.versions, p.id))
                          /\ ILike(v.content, q)))
    /\ [][(last'.op = "restore_version" /\ last'.status = 200) =>
             \A user_auth \in UserAuth, q \in SearchTerms :
                 \A p \in ByList(user_auth)' :
                     p.id = last'.req[1] =>
                         (p \in BySearch(user_auth, q)') =
                             (\E v \in VersionsOf(db.versions, p.id) :
                                 /\ v.version_number = last'.req[2]
                                 /\ ILike(v.content, q))]_vars

(* C25 witness: the term "a" occurs in version 1, version 2 replaced it by  *)
(* "b", version 3 restored version 1, and the search for "a" returned the   *)
(* prompt.                                                                  *)
C25_Witness ==
    /\ last.op = "search_prompts_by_content"
    /\ \E p \in db.prompts :
          /\ p.id \in last.value
          /\ \E v1, v2, v3 \in VersionsOf(db.versions, p.id) :
                /\ v1.version_number = 1 /\ v1.content = <<"a">>
                /\ v2.version_number = 2 /\ v2.content = <<"b">>
                /\ v3.version_number = 3 /\ v3.content = <<"a">>
                /\ v3.commit_message = Some("Restored from version 1")
                /\ p.current_version_id = Some(v3.id)

PageIsRight(r, matching, page, page_size) ==
    LET offset == (page - 1) * page_size
        rest == IF r.total > offset THEN r.total - offset ELSE 0
    IN  /\ r.total = Cardinality(matching)
        /\ Len(r.prompts) = IF rest > page_size THEN page_size ELSE rest
        /\ \A k \in 1..Len(r.prompts) :
              /\ \E p \in matching : p.id = r.prompts[k]
              /\ \A j \in 1..Len(r.prompts) :
                    r.prompts[j] = r.prompts[k] => j = k
        /\ r.total_pages = (r.total + page_size - 1) \div page_size
        /\ (r.total_pages = 0) = (r.total = 0)

(* C26: in every list or search response total counts all prompts that     *)
(* match the visibility and search filters on every page, the page holds the *)
(* min(page_size, total - (page-1)*page_size) matching prompts that follow  *)
(* the offset, each once, and total_pages is total / page_size rounded up,  *)
(* which is 0 exactly when total is 0.                                      *)
C26_PageNumbers ==
    /\ last.op = "GET /prompts" =>
          PageIsRight(last.value, ByList(last.req[1]), last.req[2],
                      last.req[3])
    /\ last.op = "GET /prompts/search" =>
          PageIsRight(last.value, BySearch(last.req[1], last.req[4]),
                      last.req[2], last.req[3])

(* C26 witness: two prompts match, and page 2 of page size 1 was returned   *)
(* with one prompt, total 2 and total_pages 2.                              *)
C26_Witness ==
    /\ last.op = "GET /prompts"
    /\ last.req[2] = 2
    /\ last.req[3] = 1
    /\ Len(last.value.prompts) = 1
    /\ last.value.total = 2
    /\ last.value.total_pages = 2

(* C27: for a user who is not the owner of a prompt, public or private,     *)
(* update_prompt, delete_prompt, create_version, restore_version,           *)
(* update_version, get_version and compare_versions find nothing,           *)
(* list_versions returns the empty list, and none of them changes the       *)
(* store.                                                                   *)
C27_OwnerOnlyWritesAndVersions ==
    \A p \in db.prompts : \A user \in Users \ {p.user_id} :
        /\ \A prompt_data \in PromptUpdates :
              LET r == update_prompt(db, ids, user, p.id, prompt_data)
              IN  r.value = None /\ r.raised = "" /\ r.db = db
        /\ LET r == delete_prompt(db, ids, user, p.id)
           IN  r.value = FALSE /\ r.db = db
        /\ \A content \in Contents, commit_message \in Opt(Messages) :
              LET r == create_version(db, ids, user, p.id,
                                      [content |-> content,
                                       commit_message |-> commit_message])
              IN  r.value = None /\ r.db = db /\ r.ids = ids
        /\ list_versions(db, user, p.id) = {<<>>}
        /\ \A n \in VersionNumbers :
              /\ get_version(db, user, p.id, n) = {}
              /\ \A version \in First(get_version(db, user, p.id, n)) :
                    /\ LET r == restore_version(db, ids, user, p.id, n, None,
                                                version)
                       IN  r.value = None /\ r.db = db /\ r.ids = ids
                    /\ \A commit_message \in Opt(Messages) :
                          LET r == update_version(db, version, commit_message)
                          IN  r.status = 404 /\ r.db = db
                    /\ \A m \in VersionNumbers :
                          \A v2 \in First(get_version(db, user, p.id, m)) :
                              compare_versions(db, user, p.id, n, m,
                                               version, v2) = None

(* C27 witness: update_version for an existing version of a public prompt   *)
(* was answered 404, which only a caller other than the owner gets.         *)
C27_Witness ==
    /\ last.op = "update_version"
    /\ last.status = 404
    /\ \E p \in db.prompts :
          /\ p.id = last.req[1]
          /\ p.is_public
          /\ \E v \in db.versions :
                v.prompt_id = p.id /\ v.version_number = last.req[2]

(* C28: a successful create_version or restore_version on prompt P leaves   *)
(* the projects, every other prompt with its pointer and every version of   *)
(* every other prompt as they were, and changes nothing of P's own row but  *)
(* current_version_id.                                                      *)
C28_VersionWritesStayInChain ==
    [][(last'.op \in {"create_version", "restore_version"}
          /\ last'.status \in {200, 201}) =>
          LET pid == last'.req[1]
          IN  /\ db'.projects = db.projects
              /\ {q \in db'.prompts : q.id # pid}
                    = {q \in db.prompts : q.id # pid}
              /\ {v \in db'.versions : v.prompt_id # pid}
                    = {v \in db.versions : v.prompt_id # pid}
              /\ \E P \in db.prompts, P2 \in db'.prompts :
                    /\ P.id = pid
                    /\ P2 = [P EXCEPT
                               !.current_version_id = P2.current_version_id]
                    /\ P2.current_version_id # P.current_version_id]_vars

(* C28 witness: prompt 1 received a second version while prompt 2 exists    *)
(* with its own current version.                                            *)
C28_Witness ==
    /\ last.op = "create_version"
    /\ last.status = 201
    /\ last.req[1] = 1
    /\ \E q \in db.prompts, v \in db.versions :
          /\ q.id = 2
          /\ v.prompt_id = 2
          /\ v.is_current
          /\ q.current_version_id = Some(v.id)
    /\ MaxNumber(VersionsOf(db.versions, 1)) = 2

C30_LiteralPathsReachTheirHandlers ==
    (last.op \in {"get_prompt", "download_prompts",
                  "search_prompts_by_content"} /\ last.req # <<>>) =>
        /\ last.req[2] = <<"download">> => last.op = "download_prompts"
        /\ last.req[2] = <<"search">> =>
              last.op = "search_prompts_by_content"

====
